---- MODULE Spec2Model ----
(***************************************************************************)
(* A model of the Gismeteo API client (custom_components/gismeteo/api.py)  *)
(* and of its file cache (custom_components/gismeteo/cache.py).            *)
(*                                                                         *)
(* Time is counted in minutes.  A Python value that may be None is a       *)
(* sequence of length 0 (None) or 1 (the value).  The result of a call is  *)
(* a tagged tuple: <<"text", s>>, <<"bool", b>>, <<"none">>,               *)
(* <<"raise", kind>>, or <<"coroutine", f, args>> for the coroutine object *)
(* that calling an `async def` without `await` gives.                      *)
(***************************************************************************)
EXTENDS Integers, Sequences, FiniteSets, TLC

VARIABLES
    now,             \* the wall clock: time.time() and dt_util.now()
    hasCache,        \* GismeteoApiClient._cache is not None
    cache,           \* Cache._cache_dir, _cache_time, _domain
    files,           \* the file system under the derived cache paths
    saved,           \* history: per path, the last save_cache that wrote it
    attributes,      \* GismeteoApiClient._attributes
    current,         \* GismeteoApiClient._current
    forecastHourly,  \* GismeteoApiClient._forecast_hourly
    forecastDaily,   \* GismeteoApiClient._forecast_daily
    parsed,          \* GismeteoApiClient._parsed
    throttle,        \* the Throttle decorator's time of the last run
    calls,           \* history: the first two calls of async_update_parsed
    last             \* history: the last operation, its inputs and result
                     \* (for an update: its calls of _async_get_data in
                     \* order, and the forecast document it received)

vars == <<now, hasCache, cache, files, saved, attributes, current,
          forecastHourly, forecastDaily, parsed, throttle, calls, last>>

clientVars == <<attributes, current, forecastHourly, forecastDaily, parsed, throttle>>

envVars == <<calls>>

-----------------------------------------------------------------------------
(* Python values *)

None == <<>>

Some(v) == <<v>>

Max(a, b) == IF a >= b THEN a ELSE b

\* a local variable: Body applied to the value of e, evaluated once
Bind(e, Body(_)) == CHOOSE r \in {Body(v) : v \in {e}} : TRUE

\* A coroutine object: what `f(args)` is when f is `async def` and the call
\* is not awaited.  Its body never runs.
Coroutine(f, args) == <<"coroutine", f, args>>

Text(s) == <<"text", s>>

Raise(kind) == <<"raise", kind>>

IsRaise(r) == r[1] = "raise"

\* bool(v) as Python's `if v:` computes it
Truthy(v) ==
    CASE v[1] = "coroutine" -> TRUE
      [] v[1] = "text" -> v[2] # ""
      [] v[1] = "bool" -> v[2]
      [] OTHER -> FALSE

-----------------------------------------------------------------------------
(* Bounds of the cache specification *)

MaxTime == 3

MaxTtl == 2

\* the cache key of the forecast of location 1
CacheKeys == {<<"forecast_", 1>>}

XmlSuffix == <<".xml">>

FileNames == {k \o XmlSuffix : k \in CacheKeys}

Contents == {"", "X", "Y"}

HttpOk == 200

NotFound == 404

Responses == [status : {HttpOk, NotFound}, body : Contents]

-----------------------------------------------------------------------------
(* cache.py *)

\* Cache._get_file_path
GetFilePath(cfg, file_name) ==
    LET name == IF cfg.domain # "" THEN <<cfg.domain, ".">> \o file_name
                ELSE file_name
    IN  <<cfg.dir>> \o name

PathExists(fs, p) == fs[p] # None

IsFile(fs, p) == fs[p] # None /\ fs[p][1].kind = "file"

FileEntry(mtime, content) == Some([kind |-> "file", mtime |-> mtime, content |-> content])

DirEntry == Some([kind |-> "dir", mtime |-> 0, content |-> ""])

IsCachedGe(fs, cfg, t, file_name, cache_time) ==
    LET p == GetFilePath(cfg, file_name)
    IN  IF ~PathExists(fs, p) \/ ~IsFile(fs, p) THEN FALSE
        ELSE fs[p][1].mtime + Max(cache_time, cfg.time) >= t

\* Cache.is_cached
IsCached(fs, cfg, t, file_name, cache_time) ==
    LET p == GetFilePath(cfg, file_name)
    IN  IF ~PathExists(fs, p) \/ ~IsFile(fs, p) THEN FALSE
        ELSE fs[p][1].mtime + Max(cache_time, cfg.time) > t

\* Cache.read_cache
ReadCache(fs, cfg, t, file_name, cache_time) ==
    IF ~IsCached(fs, cfg, t, file_name, cache_time) THEN None
    ELSE Some(fs[GetFilePath(cfg, file_name)][1].content)

SaveCacheNoOverwrite(fs, cfg, t, file_name, content) ==
    LET p == GetFilePath(cfg, file_name)
    IN  IF cfg.dir = "" THEN [fs |-> fs, out |-> <<"none">>]
        ELSE IF fs[p] # None /\ fs[p][1].kind = "dir"
             THEN [fs |-> fs, out |-> Raise("IsADirectoryError")]
        ELSE IF fs[p] # None THEN [fs |-> fs, out |-> <<"none">>]
        ELSE [fs |-> [fs EXCEPT ![p] = FileEntry(t, content)], out |-> <<"none">>]

\* Cache.save_cache: the new file system and the result.  open(path, "w")
\* on a directory raises; a write sets the file's mtime to the clock.
SaveCache(fs, cfg, t, file_name, content) ==
    LET p == GetFilePath(cfg, file_name)
    IN  IF cfg.dir = "" THEN [fs |-> fs, out |-> <<"none">>]
        ELSE IF fs[p] # None /\ fs[p][1].kind = "dir"
             THEN [fs |-> fs, out |-> Raise("IsADirectoryError")]
        ELSE [fs |-> [fs EXCEPT ![p] = FileEntry(t, content)], out |-> <<"none">>]

-----------------------------------------------------------------------------
(* api.py: the fetcher *)

AsyncGetDataAnyStatus(has, cfg, fs, t, key, resp) ==
    LET fname == IF key # None THEN key[1] \o XmlSuffix ELSE <<>>
        useCache == has /\ key # None
    IN  IF useCache /\ Truthy(Coroutine("is_cached", fname))
        THEN [out |-> Coroutine("read_cache", fname), gets |-> 0, fs |-> fs]
        ELSE [out |-> Text(resp.body), gets |-> 1, fs |-> fs]

\* GismeteoApiClient._async_get_data.  `key` is the optional cache_fname,
\* `resp` the response the server gives if it is asked.  The calls of the
\* async methods of Cache are not awaited: each gives a coroutine object.
\* Result: the returned value (or the exception), the number of HTTP GETs
\* issued, and the file system afterwards.
AsyncGetData(has, cfg, fs, t, key, resp) ==
    LET fname == IF key # None THEN key[1] \o XmlSuffix ELSE <<>>
        useCache == has /\ key # None
    IN  IF useCache /\ Truthy(Coroutine("is_cached", fname))
        THEN [out |-> Coroutine("read_cache", fname), gets |-> 0, fs |-> fs]
        ELSE IF resp.status # HttpOk
             THEN [out |-> Raise("ApiError"), gets |-> 1, fs |-> fs]
        ELSE IF useCache /\ Truthy(Text(resp.body))
             THEN \* save_cache(...) is called without await: nothing is written
                  [out |-> Text(resp.body), gets |-> 1, fs |-> fs]
        ELSE [out |-> Text(resp.body), gets |-> 1, fs |-> fs]

-----------------------------------------------------------------------------
(* api.py: records and accessors.  A record (a Python dict) is a function  *)
(* from a set of keys to optional values; `c` is the client's state        *)
(* [current, hourly, daily] and `t` the clock.  A result is Ok(v) with v   *)
(* an optional value, or Raise(kind).                                      *)

Ok(v) == <<"ok", v>>

\* dict.get(k)
Get(src, k) == IF k \in DOMAIN src THEN src[k] ELSE None

\* dict.get(k, default)
GetOr(src, k, default) == IF k \in DOMAIN src THEN src[k] ELSE Some(default)

Hourly == "hourly"

Daily == "daily"

Modes == {Hourly, Daily}

\* the selection loop shared by forecast_data and forecast: a record before
\* `t` replaces the list, any other is appended, one without time is skipped
RECURSIVE SelectFrom(_, _, _, _)
SelectFrom(series, t, i, acc) ==
    IF i > Len(series) THEN acc
    ELSE LET fc_time == Get(series[i], "datetime")
         IN  IF fc_time = None THEN SelectFrom(series, t, i + 1, acc)
             ELSE IF fc_time[1] < t THEN SelectFrom(series, t, i + 1, <<series[i]>>)
             ELSE SelectFrom(series, t, i + 1, Append(acc, series[i]))

SeriesOf(c, mode) == IF mode = Hourly THEN c.hourly ELSE c.daily

ForecastDataUnpruned(c, t, pos, mode) ==
    IF pos + 1 \in 1..Len(SeriesOf(c, mode)) THEN SeriesOf(c, mode)[pos + 1] ELSE <<>>

\* GismeteoApiClient.forecast_data (pos counts from 0; IndexError gives {})
ForecastData(c, t, pos, mode) ==
    LET forecast == SelectFrom(SeriesOf(c, mode), t, 1, <<>>)
    IN  IF pos + 1 \in 1..Len(forecast) THEN forecast[pos + 1] ELSE <<>>

\* `src or self._current`: None and the empty dict are both falsy
OrCurrent(src, c) == IF src = <<>> THEN c.current ELSE src

\* `src or self.forecast_data(0, ForecastMode.DAILY)`
OrToday(src, c, t) == IF src = <<>> THEN ForecastData(c, t, 0, Daily) ELSE src

WindyTenths == 108

FogClasses == {11, 12, 28, 40, 41, 42, 43, 44, 45, 46, 47, 48, 49, 120,
               130, 131, 132, 133, 134, 135, 528}

\* GismeteoApiClient.wind_speed
WindSpeed(src, c) == Get(OrCurrent(src, c), "native_wind_speed")

\* GismeteoApiClient.wind_gust_speed
WindGustSpeed(src, c) == Get(OrCurrent(src, c), "native_wind_gust_speed")

\* GismeteoApiClient.temperature
Temperature(src, c) == Get(OrCurrent(src, c), "native_temperature")

\* GismeteoApiClient.pressure
Pressure(src, c) == Get(OrCurrent(src, c), "native_pressure")

\* GismeteoApiClient.humidity
Humidity(src, c) == Get(OrCurrent(src, c), "humidity")

\* GismeteoApiClient.precipitation_amount
PrecipitationAmount(src, c) == Get(OrCurrent(src, c), "precipitation_amount")

\* const.PRECIPITATION_AMOUNT, indexed from 0
PrecipitationAmountTable == <<0, 2, 6, 16>>

\* PRECIPITATION_AMOUNT[i]: None is not an index, 4 and more are out of range
TableAmount(i) ==
    IF i = None THEN Raise("TypeError")
    ELSE IF i[1] + 1 \in 1..Len(PrecipitationAmountTable)
         THEN Ok(Some(PrecipitationAmountTable[i[1] + 1]))
    ELSE Raise("IndexError")

\* `amount or PRECIPITATION_AMOUNT[intensity]` if the type is one of `types`,
\* else 0: None and 0 are both falsy
AmountFor(src, types) ==
    LET amount == Get(src, "precipitation_amount")
    IN  IF Get(src, "precipitation_type") \notin {Some(x) : x \in types} THEN Ok(Some(0))
        ELSE IF amount # None /\ amount[1] # 0 THEN Ok(amount)
        ELSE TableAmount(Get(src, "precipitation_intensity"))

\* GismeteoApiClient.rain_amount
RainAmount(src, c) == AmountFor(OrCurrent(src, c), {1, 3})

\* GismeteoApiClient.snow_amount
SnowAmount(src, c) == AmountFor(OrCurrent(src, c), {2, 3})

\* GismeteoApiClient.apparent_temperature: the value is a function of the
\* three inputs (the arithmetic itself is left uninterpreted)
ApparentTemperature(src, c) ==
    LET temp == Temperature(src, c)
        humi == Humidity(src, c)
        wind == WindSpeed(src, c)
    IN  IF temp = None \/ humi = None \/ wind = None THEN None
        ELSE Some(<<"feels", temp[1], humi[1], wind[1]>>)

ConditionBaseNow(src, mode, t) ==
    LET cld == Get(src, "cloud_coverage")
        sunrise == Get(src, "sunrise")
        sunset == Get(src, "sunset")
    IN  IF cld = None THEN Ok(None)
        ELSE IF cld[1] = 0
             THEN IF mode = Daily THEN Ok(Some("sunny"))
                  ELSE IF sunrise = None THEN Raise("TypeError")
                  ELSE IF ~(sunrise[1] < t) THEN Ok(Some("clear-night"))
                  ELSE IF sunset = None THEN Raise("TypeError")
                  ELSE IF t < sunset[1] THEN Ok(Some("sunny"))
                  ELSE Ok(Some("clear-night"))
        ELSE IF cld[1] \in {1, 2} THEN Ok(Some("partlycloudy"))
        ELSE Ok(Some("cloudy"))

\* the cloud-coverage base of GismeteoApiClient.condition; `a < b < c`
\* compares a with b, and b with c only if a < b; None does not compare
ConditionBase(src, mode, t) ==
    LET cld == Get(src, "cloud_coverage")
        sunrise == Get(src, "sunrise")
        time == GetOr(src, "datetime", t)
        sunset == Get(src, "sunset")
    IN  IF cld = None THEN Ok(None)
        ELSE IF cld[1] = 0
             THEN IF mode = Daily THEN Ok(Some("sunny"))
                  ELSE IF sunrise = None \/ time = None THEN Raise("TypeError")
                  ELSE IF ~(sunrise[1] < time[1]) THEN Ok(Some("clear-night"))
                  ELSE IF sunset = None THEN Raise("TypeError")
                  ELSE IF time[1] < sunset[1] THEN Ok(Some("sunny"))
                  ELSE Ok(Some("clear-night"))
        ELSE IF cld[1] = 1 THEN Ok(Some("partlycloudy"))
        ELSE IF cld[1] = 2 THEN Ok(Some("partlycloudy"))
        ELSE Ok(Some("cloudy"))

\* GismeteoApiClient.condition
Condition(srcArg, mode, c, t) ==
    LET src == OrCurrent(srcArg, c)
        base == ConditionBase(src, mode, t)
        cld == Get(src, "cloud_coverage")
        pr_type == Get(src, "precipitation_type")
        pr_int == Get(src, "precipitation_intensity")
        storm == Get(src, "is_storm")
        ws == WindSpeed(src, c)
        ph == Get(src, "phenomenon")
    IN  IF cld = None \/ IsRaise(base) THEN base
        ELSE IF storm # None /\ storm[1]
             THEN IF pr_type # Some(0) THEN Ok(Some("lightning-rainy"))
                  ELSE Ok(Some("lightning"))
        ELSE IF pr_type = Some(1)
             THEN IF pr_int = Some(3) THEN Ok(Some("pouring")) ELSE Ok(Some("rainy"))
        ELSE IF pr_type = Some(2) THEN Ok(Some("snowy"))
        ELSE IF pr_type = Some(3) THEN Ok(Some("snowy-rainy"))
        ELSE IF ws = None THEN Raise("TypeError")
        ELSE IF 10 * ws[1] > WindyTenths
             THEN IF base = Ok(Some("cloudy")) THEN Ok(Some("windy-variant"))
                  ELSE Ok(Some("windy"))
        ELSE IF cld[1] = 0 /\ ph # None /\ ph[1] \in FogClasses THEN Ok(Some("fog"))
        ELSE base

\* GismeteoApiClient.wind_bearing: int(None) raises
WindBearing(src, c) ==
    LET bearing == GetOr(OrCurrent(src, c), "wind_bearing", 0)
    IN  IF bearing = None THEN Raise("TypeError")
        ELSE IF bearing[1] > 0 THEN Ok(Some((bearing[1] - 1) * 45))
        ELSE Ok(None)

BearingLabels == <<"n", "ne", "e", "se", "s", "sw", "w", "nw">>

\* GismeteoApiClient.wind_bearing_label: an unknown code is a KeyError, caught
WindBearingLabel(src, c) ==
    LET bearing == GetOr(OrCurrent(src, c), "wind_bearing", 0)
    IN  IF bearing = None THEN Raise("TypeError")
        ELSE IF bearing[1] \in 1..8 THEN Ok(Some(BearingLabels[bearing[1]]))
        ELSE Ok(None)

PrecipitationTypes == <<"rain", "snow", "snow-rain">>

\* GismeteoApiClient.precipitation_type: an unknown code is a KeyError, caught
PrecipitationType(src, c) ==
    LET pt == Get(OrCurrent(src, c), "precipitation_type")
    IN  IF pt = None THEN None
        ELSE IF pt[1] = 0 THEN Some("none")
        ELSE IF pt[1] \in 1..3 THEN Some(PrecipitationTypes[pt[1]])
        ELSE None

PrecipitationIntensities == <<"small", "normal", "heavy">>

\* GismeteoApiClient.precipitation_intensity
PrecipitationIntensity(src, c) ==
    LET pt == Get(OrCurrent(src, c), "precipitation_intensity")
    IN  IF pt = None THEN None
        ELSE IF pt[1] = 0 THEN Some("none")
        ELSE IF pt[1] \in 1..3 THEN Some(PrecipitationIntensities[pt[1]])
        ELSE None

\* GismeteoApiClient.uv_index
UvIndex(src, c, t) == Get(OrToday(src, c, t), "uv_index")

\* GismeteoApiClient.road_condition: the stored value is the page's raw
\* caption, a text token (written here in Latin letters); "", "no data"
\* and unknown captions give None
RoadCondition(src, c, t) ==
    LET rc == Get(OrToday(src, c, t), "road_condition")
    IN  IF rc = None \/ rc = Some(<<"txt", "">>) THEN None
        ELSE IF rc[1] = <<"txt", "dry road">> THEN Some("dry")
        ELSE IF rc[1] = <<"txt", "water">> THEN Some("water")
        ELSE IF rc[1] = <<"txt", "wet road">> THEN Some("wet")
        ELSE None

OutKeys == {"datetime", "is_daytime", "condition", "native_apparent_temperature",
            "native_temperature", "native_pressure", "humidity", "wind_bearing",
            "wind_bearing_label", "native_wind_gust_speed", "native_wind_speed",
            "precipitation_type", "native_precipitation", "precipitation_intensity",
            "uv_index", "road_condition", "native_templow"}

\* the dict literal of GismeteoApiClient.forecast for one stored record i,
\* before the None values are dropped (i is not empty: it has a time)
DerivedFields(i, mode, c, t) ==
    [k \in OutKeys |->
        CASE k = "datetime" -> Get(i, "datetime")
          [] k = "is_daytime" -> Get(i, "is_daytime")
          [] k = "condition" -> Condition(i, mode, c, t)[2]
          [] k = "native_apparent_temperature" -> ApparentTemperature(i, c)
          [] k = "native_temperature" -> Temperature(i, c)
          [] k = "native_pressure" -> Pressure(i, c)
          [] k = "humidity" -> Humidity(i, c)
          [] k = "wind_bearing" -> WindBearing(i, c)[2]
          [] k = "wind_bearing_label" -> WindBearingLabel(i, c)[2]
          [] k = "native_wind_gust_speed" -> WindSpeed(i, c)
          [] k = "native_wind_speed" -> WindSpeed(i, c)
          [] k = "precipitation_type" -> PrecipitationType(i, c)
          [] k = "native_precipitation" -> PrecipitationAmount(i, c)
          [] k = "precipitation_intensity" -> PrecipitationIntensity(i, c)
          [] k = "uv_index" -> UvIndex(i, c, t)
          [] k = "road_condition" -> RoadCondition(i, c, t)
          [] k = "native_templow" ->
                IF mode = Daily THEN Get(i, "native_templow") ELSE None]

\* one output record of GismeteoApiClient.forecast, or the exception that
\* an accessor raises while the dict literal is evaluated
Derive(i, mode, c, t) ==
    IF IsRaise(Condition(i, mode, c, t)) THEN Condition(i, mode, c, t)
    ELSE IF IsRaise(WindBearing(i, c)) THEN WindBearing(i, c)
    ELSE LET all == DerivedFields(i, mode, c, t)
         IN  Ok([k \in {x \in OutKeys : all[x] # None} |-> all[k][1]])

RECURSIVE ForecastFrom(_, _, _, _, _, _)
ForecastFrom(series, mode, c, t, i, acc) ==
    IF i > Len(series) THEN Ok(acc)
    ELSE LET fc_time == Get(series[i], "datetime")
             data == Derive(series[i], mode, c, t)
         IN  IF fc_time = None THEN ForecastFrom(series, mode, c, t, i + 1, acc)
             ELSE IF IsRaise(data) THEN data
             ELSE IF fc_time[1] < t
                  THEN ForecastFrom(series, mode, c, t, i + 1, <<data[2]>>)
             ELSE ForecastFrom(series, mode, c, t, i + 1, Append(acc, data[2]))

ForecastUnpruned(c, t, mode) == ForecastFrom(SeriesOf(c, mode), mode, c, 0, 1, <<>>)

\* GismeteoApiClient.forecast
Forecast(c, t, mode) == ForecastFrom(SeriesOf(c, mode), mode, c, t, 1, <<>>)

-----------------------------------------------------------------------------
(* The cache specification: the Cache API used directly (awaited), the     *)
(* client's fetcher on top of it, and the clock.                           *)

Idle == [op |-> "idle", name |-> <<>>, arg |-> <<>>, fresh |-> FALSE, out |-> <<"none">>, gets |-> 0]

CacheConfigs == [dir : {"", "cache"}, time : 0..MaxTtl, domain : {"", "gismeteo"}]

PathsOf(cfg) == {GetFilePath(cfg, n) : n \in FileNames}

InitEntries == {None, DirEntry, FileEntry(0, "Y")}

InitClient ==
    /\ attributes = [id |-> Some(1)]
    /\ current = <<>>
    /\ forecastHourly = <<>>
    /\ forecastDaily = <<>>
    /\ parsed = <<>>
    /\ throttle = None
    /\ calls = <<>>

InitCache ==
    /\ now = 0
    /\ hasCache \in BOOLEAN
    /\ cache \in CacheConfigs
    /\ files \in [PathsOf(cache) -> InitEntries]
    /\ saved = [p \in PathsOf(cache) |-> None]
    /\ InitClient
    /\ last = Idle

\* await cache.is_cached(name, override)
CacheIsCached(name, override) ==
    /\ last' = [Idle EXCEPT !.op = "is_cached", !.name = name, !.arg = <<override>>,
                            !.out = <<"bool", IsCached(files, cache, now, name, override)>>]
    /\ UNCHANGED <<now, hasCache, cache, files, saved, clientVars, envVars>>

\* await cache.read_cache(name, override)
CacheReadCache(name, override) ==
    /\ last' = [Idle EXCEPT !.op = "read_cache", !.name = name, !.arg = <<override>>,
                            !.out = LET r == ReadCache(files, cache, now, name, override)
                                    IN  IF r = None THEN <<"none">> ELSE Text(r[1])]
    /\ UNCHANGED <<now, hasCache, cache, files, saved, clientVars, envVars>>

\* await cache.save_cache(name, content)
CacheSaveCache(name, content) ==
    LET r == SaveCache(files, cache, now, name, content)
        p == GetFilePath(cache, name)
    IN  /\ files' = r.fs
        /\ saved' = IF cache.dir # "" /\ ~IsRaise(r.out)
                    THEN [saved EXCEPT ![p] = Some([at |-> now, content |-> content])]
                    ELSE saved
        /\ last' = [Idle EXCEPT !.op = "save_cache", !.name = name, !.arg = <<content>>,
                                !.out = r.out]
        /\ UNCHANGED <<now, hasCache, cache, clientVars, envVars>>

\* await client._async_get_data(url, key) against a server answering resp
GetData(key, resp) ==
    LET r == AsyncGetData(hasCache, cache, files, now, key, resp)
        name == IF key = None THEN <<>> ELSE key[1] \o XmlSuffix
    IN  /\ files' = r.fs
        /\ last' = [op |-> "get_data", name |-> name, arg |-> <<resp>>,
                    fresh |-> key # None /\ IsCached(files, cache, now, name, 0),
                    out |-> r.out, gets |-> r.gets]
        /\ UNCHANGED <<now, hasCache, cache, saved, clientVars, envVars>>

CacheTick ==
    /\ now < MaxTime
    /\ now' = now + 1
    /\ last' = Idle
    /\ UNCHANGED <<hasCache, cache, files, saved, clientVars, envVars>>

NextCache ==
    \/ \E n \in FileNames, o \in 0..MaxTtl : CacheIsCached(n, o)
    \/ \E n \in FileNames, o \in 0..MaxTtl : CacheReadCache(n, o)
    \/ \E n \in FileNames, c \in Contents : CacheSaveCache(n, c)
    \/ \E k \in {None} \cup {Some(k) : k \in CacheKeys}, r \in Responses : GetData(k, r)
    \/ CacheTick

SpecCache == InitCache /\ [][NextCache]_vars

-----------------------------------------------------------------------------
(* Claims about the fetcher and the cache, checked under SpecCache *)

LastPath == GetFilePath(cache, last.name)

LastIsKeyedFetch == last.op = "get_data" /\ hasCache /\ last.name # <<>>

\* C2: for a client with a cache, _async_get_data with a cache key whose
\* entry is fresh returns the cached text, a string equal to what was saved,
\* and issues no HTTP request.
C2_FreshReturnsCachedText ==
    (LastIsKeyedFetch /\ last.fresh) =>
        /\ last.out = Text(files[LastPath][1].content)
        /\ last.gets = 0

\* C3: for a client with a cache, _async_get_data with a cache key whose
\* entry is missing or stale issues exactly one HTTP GET (no retry) and
\* returns the body of that GET's response.
C3_StaleIssuesOneGet ==
    (LastIsKeyedFetch /\ ~last.fresh) =>
        /\ last.gets = 1
        /\ (last.arg[1].status = HttpOk => last.out = Text(last.arg[1].body))

\* C4: after _async_get_data completes successfully with a cache key and a
\* non-empty body (here: the entry was not fresh, so the body is the
\* server's), the cache holds that body under {cacheKey}.xml: is_cached is
\* true and read_cache returns the body while the TTL has not expired.
C4_WriteThrough ==
    (/\ LastIsKeyedFetch /\ ~last.fresh /\ ~IsRaise(last.out)
     /\ cache.dir # "" /\ cache.time > 0
     /\ last.arg[1].status = HttpOk /\ last.arg[1].body # "") =>
        /\ IsCached(files, cache, now, last.name, 0)
        /\ ReadCache(files, cache, now, last.name, 0) = Some(last.arg[1].body)

\* The derived path exists, is a regular file, and mtime + ttl > now.
FreshByContract(name, override) ==
    LET p == GetFilePath(cache, name)
    IN  /\ files[p] # None
        /\ files[p][1].kind = "file"
        /\ files[p][1].mtime + Max(override, cache.time) > now

\* C5: at every time and for every name and override, is_cached(name,
\* override) is true if and only if the derived path exists, is a regular
\* file, and mtime + max(override, defaultTtl) > now (strictly).
C5_IsCachedIffFresh ==
    /\ \A n \in FileNames, o \in 0..MaxTtl :
          IsCached(files, cache, now, n, o) <=> FreshByContract(n, o)
    /\ last.op = "is_cached" =>
          last.out = <<"bool", FreshByContract(last.name, last.arg[1])>>

\* is_cached has answered false for a regular file whose mtime + ttl equals now
C5_Witness ==
    /\ last.op = "is_cached"
    /\ last.out = <<"bool", FALSE>>
    /\ files[LastPath] # None
    /\ files[LastPath][1].kind = "file"
    /\ Max(last.arg[1], cache.time) > 0
    /\ files[LastPath][1].mtime + Max(last.arg[1], cache.time) = now

\* C6 as stated: save_cache(name, X) followed immediately by is_cached(name)
\* yields true and read_cache(name) yields X, for every configured default
\* TTL including 0 (a cache directory being configured).
C6_RoundTripEveryTtl ==
    (last.op = "save_cache" /\ ~IsRaise(last.out) /\ cache.dir # "") =>
        /\ IsCached(files, cache, now, last.name, 0)
        /\ ReadCache(files, cache, now, last.name, 0) = Some(last.arg[1])

\* C6 amended: with a cache directory configured, after save_cache(name, X)
\* at time t (and no later save of that name), is_cached(name) is true and
\* read_cache(name) is X exactly while now < t + defaultTtl, so right after
\* the save only if the default TTL is greater than 0; from t + defaultTtl
\* on, is_cached(name) is false and read_cache(name) is null.
C6_RoundTrip ==
    \A n \in FileNames :
        LET p == GetFilePath(cache, n)
        IN  saved[p] # None =>
              IF now < saved[p][1].at + cache.time
              THEN /\ IsCached(files, cache, now, n, 0)
                   /\ ReadCache(files, cache, now, n, 0) = Some(saved[p][1].content)
              ELSE /\ ~IsCached(files, cache, now, n, 0)
                   /\ ReadCache(files, cache, now, n, 0) = None

\* a save over an older entry has just been made and reads back
C6_Witness ==
    /\ last.op = "save_cache"
    /\ cache.time > 0
    /\ now > 0
    /\ saved[LastPath] = Some([at |-> now, content |-> "X"])
    /\ IsCached(files, cache, now, last.name, 0)
    /\ ReadCache(files, cache, now, last.name, 0) = Some("X")

\* C17: when the response to the GET of _async_get_data has a status other
\* than 200, the call raises ApiError (it returns no body) and the cache
\* files are what they were before the call
C17_Non200RaisesAndWritesNothing ==
    [][(last'.op = "get_data" /\ last'.gets = 1 /\ last'.arg[1].status # HttpOk) =>
        (last'.out = Raise("ApiError") /\ files' = files)]_vars

\* a request answered 404 has raised ApiError while an older cache entry
\* lies in the cache directory
C17_Witness ==
    /\ last.op = "get_data"
    /\ last.gets = 1
    /\ last.arg[1].status = NotFound
    /\ last.arg[1].body # ""
    /\ last.out = Raise("ApiError")
    /\ \E p \in DOMAIN files : files[p] = FileEntry(0, "Y")

-----------------------------------------------------------------------------
(* The cleanup specification: Cache._clean_dir sweeping a cache directory  *)
(* entry by entry while another actor may delete entries.  `last` holds    *)
(* the sweep: the names still to visit, the step within the loop body, the *)
(* time and TTL it was started with, the directory as it was then and the  *)
(* names the other actor has deleted since.                                *)

\* the names that may lie in the cache directory
DirNames == {<<"gismeteo", ".", "a">>, <<"gismeteo", ".", "b">>}

\* os.path.join(self._cache_dir, file_name)
JoinDir(cfg, file_name) == <<cfg.dir>> \o file_name

\* os.listdir(self._cache_dir), in any order
Listings(cfg, fs) ==
    LET present == {n \in DirNames : fs[JoinDir(cfg, n)] # None}
    IN  {q \in UNION {[1..k -> present] : k \in 0..Cardinality(DirNames)} :
            /\ Len(q) = Cardinality(present)
            /\ \A i \in 1..Len(q) : \A j \in 1..Len(q) : i # j => q[i] # q[j]}

InitClean ==
    /\ now \in 0..MaxTime
    /\ hasCache = TRUE
    /\ cache \in [dir : {"", "cache"}, time : 0..MaxTtl, domain : {"gismeteo"}]
    /\ files \in [{JoinDir(cache, n) : n \in DirNames} ->
                    {None, DirEntry, FileEntry(0, "Y"), FileEntry(1, "Y")}]
    /\ saved = <<>>
    /\ InitClient
    /\ last = [op |-> "idle"]

\* self._clean_dir(cache_time) up to the listing of the directory (the
\* directory exists: it is where the entries lie)
CleanDirStart(cache_time) ==
    /\ last.op = "idle"
    /\ \E q \in IF cache.dir # "" THEN Listings(cache, files) ELSE {<<>>} :
          last' = [op |-> "clean_dir", pending |-> q, step |-> "getmtime", at |-> now,
                   ttl |-> Max(cache_time, cache.time), start |-> files, gone |-> {},
                   out |-> <<"none">>]
    /\ UNCHANGED <<now, hasCache, cache, files, saved, clientVars, envVars>>

\* os.path.getmtime(file_path): FileNotFoundError is passed over
CleanDirStat ==
    /\ last.op = "clean_dir" /\ last.pending # <<>> /\ last.step = "getmtime"
    /\ ~IsRaise(last.out)
    /\ LET p == JoinDir(cache, Head(last.pending))
       IN  last' = IF files[p] = None \/ ~(files[p][1].mtime + last.ttl <= last.at)
                   THEN [last EXCEPT !.pending = Tail(last.pending)]
                   ELSE [last EXCEPT !.step = "remove"]
    /\ UNCHANGED <<now, hasCache, cache, files, saved, clientVars, envVars>>

\* os.remove(file_path): FileNotFoundError is passed over, the error of
\* removing a directory is not
CleanDirRemove ==
    /\ last.op = "clean_dir" /\ last.pending # <<>> /\ last.step = "remove"
    /\ LET p == JoinDir(cache, Head(last.pending))
       IN  IF files[p] # None /\ files[p][1].kind = "dir"
           THEN /\ last' = [last EXCEPT !.out = Raise("IsADirectoryError"), !.step = "getmtime"]
                /\ files' = files
           ELSE /\ last' = [last EXCEPT !.pending = Tail(last.pending), !.step = "getmtime"]
                /\ files' = [files EXCEPT ![p] = None]
    /\ UNCHANGED <<now, hasCache, cache, saved, clientVars, envVars>>

\* another actor deletes an entry of the directory during the sweep
OtherDelete(n) ==
    /\ last.op = "clean_dir" /\ last.pending # <<>> /\ ~IsRaise(last.out)
    /\ cache.dir # ""
    /\ files[JoinDir(cache, n)] # None
    /\ files' = [files EXCEPT ![JoinDir(cache, n)] = None]
    /\ last' = [last EXCEPT !.gone = @ \union {n}]
    /\ UNCHANGED <<now, hasCache, cache, saved, clientVars, envVars>>

NextClean ==
    \/ \E o \in 0..MaxTtl : CleanDirStart(o)
    \/ CleanDirStat
    \/ CleanDirRemove
    \/ \E n \in DirNames : OtherDelete(n)

SpecClean == InitClean /\ [][NextClean]_vars

\* the sweep has ended: it visited every listed name, or an exception left it
SweepEnded == last.op = "clean_dir" /\ (last.pending = <<>> \/ IsRaise(last.out))

\* the entry lay in the directory when the sweep started, and was stale then
StaleAtStart(p) == last.start[p] # None /\ last.start[p][1].mtime + last.ttl <= last.at

\* C24: cleanup at time now removes exactly the entries with mtime +
\* max(override, defaultTtl) <= now and keeps every entry with mtime +
\* max(override, defaultTtl) > now (unless the other actor deleted it), and
\* it completes without error when a listed entry is deleted by another
\* actor between the listing and its stat or remove
C24_CleanupRemovesExactlyStale ==
    (SweepEnded /\ cache.dir # "") =>
        /\ ~IsRaise(last.out)
        /\ \A n \in DirNames :
              LET p == JoinDir(cache, n)
              IN  /\ StaleAtStart(p) => files[p] = None
                  /\ (last.start[p] # None /\ ~StaleAtStart(p) /\ n \notin last.gone) =>
                        files[p] = last.start[p]

-----------------------------------------------------------------------------
(* The accessor specification: condition() applied to records drawn from   *)
(* bounded field sets, on a client whose CurrentConditions and clock vary. *)

MaxStamp == 3

Stamps == 0..MaxStamp

Sunrise == 1

Sunset == 3

\* the fields condition() reads, as async_update stores them
CondFields ==
    [sunrise : {Some(Sunrise)}, sunset : {Some(Sunset)},
     cloud_coverage : {None, Some(0), Some(1), Some(3)},
     is_storm : {Some(FALSE), Some(TRUE)},
     precipitation_type : {None, Some(0), Some(1), Some(2), Some(3)},
     precipitation_intensity : {None, Some(3)},
     native_wind_speed : {None, Some(10), Some(11)},
     phenomenon : {None, Some(11)}]

\* a record with a forecast time (a stored forecast record)
Stamped(r, time) == [k \in DOMAIN r \union {"datetime"} |->
                        IF k = "datetime" THEN Some(time) ELSE r[k]]

CondRecords ==
    {<<>>} \union CondFields \union {Stamped(r, time) : r \in CondFields, time \in {0, 2}}

\* stored CurrentConditions: none yet, a clear calm sky, an overcast gale
Currents ==
    {<<>>,
     [sunrise |-> Some(Sunrise), sunset |-> Some(Sunset), cloud_coverage |-> Some(0),
      is_storm |-> Some(FALSE), precipitation_type |-> Some(0),
      precipitation_intensity |-> Some(0), native_wind_speed |-> Some(0),
      phenomenon |-> None],
     [sunrise |-> Some(Sunrise), sunset |-> Some(Sunset), cloud_coverage |-> Some(3),
      is_storm |-> Some(FALSE), precipitation_type |-> Some(0),
      precipitation_intensity |-> Some(0), native_wind_speed |-> Some(11),
      phenomenon |-> None]}

\* the client's state as the accessors see it
Client == [current |-> current, hourly |-> forecastHourly, daily |-> forecastDaily]

NoCache == [dir |-> "", time |-> 0, domain |-> ""]

InitCond ==
    /\ now \in Stamps
    /\ hasCache = FALSE
    /\ cache = NoCache
    /\ files = <<>>
    /\ saved = <<>>
    /\ attributes = [id |-> Some(1)]
    /\ current \in Currents
    /\ forecastHourly = <<>>
    /\ forecastDaily = <<>>
    /\ parsed = <<>>
    /\ throttle = None
    /\ calls = <<>>
    /\ last \in [op : {"idle"}, arg : CondRecords, mode : Modes, at : {0},
                 out : {<<"none">>}]

\* client.condition(record, mode), on the record and mode drawn at the start;
\* the call may be repeated as the clock advances
CallCondition ==
    /\ last' = [last EXCEPT !.op = "condition", !.at = now,
                            !.out = Condition(last.arg, last.mode, Client, now)]
    /\ UNCHANGED <<now, hasCache, cache, files, saved, clientVars, envVars>>

\* the clock advances
ClockTick ==
    /\ now < MaxStamp
    /\ now' = now + 1
    /\ UNCHANGED <<hasCache, cache, files, saved, clientVars, envVars, last>>

NextCond ==
    \/ CallCondition
    \/ ClockTick

SpecCond == InitCond /\ [][NextCond]_vars

\* the rule list of the classification, written out rule by rule
RuleBase(rec, mode, t) ==
    LET cld == rec["cloud_coverage"][1]
        time == IF "datetime" \in DOMAIN rec THEN rec["datetime"][1] ELSE t
        daytime == mode = Daily
                   \/ (rec["sunrise"][1] < time /\ time < rec["sunset"][1])
    IN  IF cld = 0 THEN (IF daytime THEN "sunny" ELSE "clear-night")
        ELSE IF cld \in {1, 2} THEN "partlycloudy"
        ELSE "cloudy"

RuleList(rec, mode, t) ==
    LET base == RuleBase(rec, mode, t)
        type == rec["precipitation_type"]
    IN  CASE rec["is_storm"] = Some(TRUE) ->
                IF type # Some(0) THEN "lightning-rainy" ELSE "lightning"
          [] rec["is_storm"] # Some(TRUE) /\ type = Some(1) ->
                IF rec["precipitation_intensity"] = Some(3) THEN "pouring" ELSE "rainy"
          [] rec["is_storm"] # Some(TRUE) /\ type = Some(2) -> "snowy"
          [] rec["is_storm"] # Some(TRUE) /\ type = Some(3) -> "snowy-rainy"
          [] OTHER ->
                IF rec["native_wind_speed"] # None
                   /\ 10 * rec["native_wind_speed"][1] > WindyTenths
                THEN (IF base = "cloudy" THEN "windy-variant" ELSE "windy")
                ELSE IF rec["cloud_coverage"] = Some(0) /\ rec["phenomenon"] # None
                        /\ rec["phenomenon"][1] \in FogClasses
                THEN "fog"
                ELSE base

NullCloud(rec) == "cloud_coverage" \notin DOMAIN rec \/ rec["cloud_coverage"] = None

\* C9: for every record with non-null cloud coverage condition(record, mode)
\* is the label of the ordered first-match rule list, and for null cloud
\* coverage it is null whatever the other fields are
C9_ConditionIsRuleList ==
    last.op = "condition" =>
        IF NullCloud(last.arg) THEN last.out = Ok(None)
        ELSE last.out = Ok(Some(RuleList(last.arg, last.mode, last.at)))

\* the result of condition() on the same record and mode in a run that
\* differs in the clock and in the stored CurrentConditions
OtherRun(t2, cur2) ==
    Condition(last.arg, last.mode, [Client EXCEPT !.current = cur2], t2)

TimeIndependent(rec, mode) ==
    "datetime" \in DOMAIN rec \/ mode = Daily \/ Get(rec, "cloud_coverage") # Some(0)

C25_ExplicitRecordOnly ==
    last.op = "condition" =>
        /\ \A cur2 \in Currents :
              Condition(last.arg, last.mode, [Client EXCEPT !.current = cur2], last.at)
                  = last.out
        /\ last.arg = <<>> =>
              /\ last.out = Ok(None)
              /\ WindSpeed(last.arg, Client) = None
              /\ Temperature(last.arg, Client) = None
              /\ Humidity(last.arg, Client) = None
              /\ Pressure(last.arg, Client) = None
              /\ ApparentTemperature(last.arg, Client) = None

-----------------------------------------------------------------------------
(* The amount specification: rain_amount() and snow_amount() applied to    *)
(* records drawn from bounded field sets.                                  *)

\* the fields the two accessors read; amounts are in mm
AmountRecords ==
    [precipitation_type : {None, Some(0), Some(1), Some(2), Some(3)},
     precipitation_amount : {None, Some(0), Some(3)},
     precipitation_intensity : {None, Some(0), Some(1), Some(2), Some(3), Some(4)}]

InitAmount ==
    /\ now = 0
    /\ hasCache = FALSE
    /\ cache = NoCache
    /\ files = <<>>
    /\ saved = <<>>
    /\ attributes = [id |-> Some(1)]
    /\ current \in {<<>>, [precipitation_type |-> Some(3), precipitation_amount |-> Some(3),
                           precipitation_intensity |-> Some(1)]}
    /\ forecastHourly = <<>>
    /\ forecastDaily = <<>>
    /\ parsed = <<>>
    /\ throttle = None
    /\ calls = <<>>
    /\ last \in [op : {"idle"}, arg : AmountRecords, out : {<<"none">>}]

\* client.rain_amount(record), on the record drawn at the start
CallRainAmount ==
    /\ last' = [last EXCEPT !.op = "rain_amount", !.out = RainAmount(last.arg, Client)]
    /\ UNCHANGED <<now, hasCache, cache, files, saved, clientVars, envVars>>

\* client.snow_amount(record)
CallSnowAmount ==
    /\ last' = [last EXCEPT !.op = "snow_amount", !.out = SnowAmount(last.arg, Client)]
    /\ UNCHANGED <<now, hasCache, cache, files, saved, clientVars, envVars>>

NextAmount ==
    \/ CallRainAmount
    \/ CallSnowAmount

SpecAmount == InitAmount /\ [][NextAmount]_vars

\* the amount the contract gives for a record whose type applies
AmountByContract(rec) ==
    IF rec["precipitation_amount"] # None THEN Ok(rec["precipitation_amount"])
    ELSE Ok(Some(PrecipitationAmountTable[rec["precipitation_intensity"][1] + 1]))

\* the contract says what the amount is: the type does not apply, or an
\* amount is present, or the intensity code indexes the table
AmountIsDefined(rec, types) ==
    \/ rec["precipitation_type"] \notin {Some(x) : x \in types}
    \/ rec["precipitation_amount"] # None
    \/ (rec["precipitation_intensity"] # None /\ rec["precipitation_intensity"][1] \in 0..3)

\* C19: rain_amount is 0 unless the type is 1 or 3 and snow_amount is 0
\* unless the type is 2 or 3; when the type applies the result is the
\* record's amount whenever it is present (an amount of 0 included) and the
\* table value of the intensity code only when the amount is absent
C19_AmountOrTable ==
    \A types \in {{1, 3}, {2, 3}} :
        (/\ last.op = (IF types = {1, 3} THEN "rain_amount" ELSE "snow_amount")
         /\ AmountIsDefined(last.arg, types)) =>
            IF last.arg["precipitation_type"] \notin {Some(x) : x \in types}
            THEN last.out = Ok(Some(0))
            ELSE last.out = AmountByContract(last.arg)

-----------------------------------------------------------------------------
(* The forecast specification: forecast() and forecast_data() on series    *)
(* drawn from bounded sets of stored records.                              *)

MaxLen == 3

\* a forecast record as async_update stores it; in the document of a
\* `calm` record the wind attributes are missing, so both coerce to None
StoredRecord(time, calm) ==
    [sunrise |-> Some(Sunrise), sunset |-> Some(Sunset), datetime |-> Some(time),
     is_daytime |-> Some(Sunrise < time /\ time < Sunset),
     native_temperature |-> Some(5), native_pressure |-> Some(750),
     humidity |-> Some(60),
     native_wind_speed |-> IF calm THEN None ELSE Some(3),
     wind_bearing |-> IF calm THEN None ELSE Some(2),
     cloud_coverage |-> Some(1), precipitation_type |-> Some(0),
     precipitation_amount |-> Some(0), precipitation_intensity |-> Some(0),
     is_storm |-> Some(FALSE), geomagnetic_field |-> None,
     native_wind_gust_speed |-> Some(9)]

StampSeqs == UNION {[1..n -> Stamps] : n \in 0..MaxLen}

\* the series with the given forecast times; record `calm` (0: none, 1: the
\* first) has no wind data
SeriesWith(times, calm) == [i \in 1..Len(times) |-> StoredRecord(times[i], i = calm)]

InitForecast ==
    /\ now \in Stamps
    /\ hasCache = FALSE
    /\ cache = NoCache
    /\ files = <<>>
    /\ saved = <<>>
    /\ attributes = [id |-> Some(1)]
    /\ current = <<>>
    /\ \E times \in StampSeqs, calm \in {0, 1} :
          /\ calm <= Len(times)
          /\ \/ forecastHourly = SeriesWith(times, calm) /\ forecastDaily = <<>>
             \/ forecastHourly = <<>> /\ forecastDaily = SeriesWith(times, calm)
    /\ parsed = <<>>
    /\ throttle = None
    /\ calls = <<>>
    /\ last = [op |-> "idle", mode |-> Hourly, pos |-> 0, at |-> 0, out |-> <<"none">>]

\* client.forecast(mode)
CallForecast(mode) ==
    /\ last' = [op |-> "forecast", mode |-> mode, pos |-> 0, at |-> now,
                out |-> Forecast(Client, now, mode)]
    /\ UNCHANGED <<now, hasCache, cache, files, saved, clientVars, envVars>>

\* client.forecast_data(pos, mode)
CallForecastData(pos, mode) ==
    /\ last' = [op |-> "forecast_data", mode |-> mode, pos |-> pos, at |-> now,
                out |-> Ok(ForecastData(Client, now, pos, mode))]
    /\ UNCHANGED <<now, hasCache, cache, files, saved, clientVars, envVars>>

NextForecast ==
    \/ \E mode \in Modes : CallForecast(mode)
    \/ \E pos \in 0..1, mode \in Modes : CallForecastData(pos, mode)
    \/ ClockTick

SpecForecast == InitForecast /\ [][NextForecast]_vars

TimesOf(series) == [i \in 1..Len(series) |-> series[i]["datetime"][1]]

\* the forecast times of the records forecast() returns
OutTimes(out) == [i \in 1..Len(out) |-> out[i]["datetime"]]

Ascending(times) == \A i \in 1..Len(times) : \A j \in i..Len(times) : times[i] <= times[j]

\* the pruned times: the latest one before t (if any), then those not before t
Pruned(times, t) ==
    LET past == {i \in 1..Len(times) : times[i] < t}
        latest == CHOOSE i \in past : \A j \in past : j <= i
        rest == SelectSeq(times, LAMBDA x : ~(x < t))
    IN  IF past = {} THEN rest ELSE <<times[latest]>> \o rest

\* C8: for a stored series in ascending time order forecast(mode) returns,
\* in order, the latest record before now (if any) followed by every
\* record not before now
C8_HistoryPruning ==
    (last.op = "forecast" /\ Ascending(TimesOf(SeriesOf(Client, last.mode)))) =>
        /\ last.out[1] = "ok"
        /\ OutTimes(last.out[2]) = Pruned(TimesOf(SeriesOf(Client, last.mode)), last.at)

\* C26: forecast(mode) returns normally for every stored series, records
\* with null wind speed and wind bearing included: each selected record
\* yields one output record and no accessor raises
C26_ForecastToleratesNulls ==
    last.op = "forecast" =>
        /\ last.out[1] = "ok"
        /\ Len(last.out[2]) = Len(SelectFrom(SeriesOf(Client, last.mode), last.at, 1, <<>>))

\* the fields of an output record as the accessors give them for the
\* source record i, the wind gust speed being wind_gust_speed(i)
ByAccessor(i, mode, t) ==
    [DerivedFields(i, mode, Client, t) EXCEPT
        !["native_wind_gust_speed"] = WindGustSpeed(i, Client)]

\* C28: every field of a record that forecast(mode) returns is the result
\* of the accessor of that field applied to the source record, and is
\* absent when that result is null; the wind gust speed field is
\* wind_gust_speed(record)
C28_FieldsAreAccessorResults ==
    (last.op = "forecast" /\ last.out[1] = "ok") =>
        LET src == SelectFrom(SeriesOf(Client, last.mode), last.at, 1, <<>>)
        IN  /\ Len(last.out[2]) = Len(src)
            /\ \A n \in 1..Len(src) : \A k \in OutKeys :
                  LET v == ByAccessor(src[n], last.mode, last.at)[k]
                  IN  IF v = None THEN k \notin DOMAIN last.out[2][n]
                      ELSE k \in DOMAIN last.out[2][n] /\ last.out[2][n][k] = v[1]

\* C29: for every stored series, in whatever order its records are, the
\* list forecast(mode) returns has at most one record before now, which is
\* then its first element; every later element is not before now
C29_AtMostOnePastRecord ==
    (last.op = "forecast" /\ last.out[1] = "ok") =>
        \A n \in 2..Len(last.out[2]) : ~(last.out[2][n]["datetime"] < last.at)

\* forecast() has returned a past record followed by a later one, from a
\* series that is not in ascending order
C29_Witness ==
    /\ last.op = "forecast"
    /\ last.out[1] = "ok"
    /\ ~Ascending(TimesOf(SeriesOf(Client, last.mode)))
    /\ Len(last.out[2]) = 2
    /\ last.out[2][1]["datetime"] < last.at
    /\ last.out[2][2]["datetime"] > last.at

\* C30: forecast_data(pos, mode) and forecast(mode) select the same
\* records: for pos below the length of forecast(mode), forecast_data
\* returns a stored record with the timestamp of forecast(mode)[pos], and
\* for every other pos the empty record
C30_SameSelection ==
    (last.op = "forecast_data" /\ Forecast(Client, last.at, last.mode)[1] = "ok") =>
        LET list == Forecast(Client, last.at, last.mode)[2]
            series == SeriesOf(Client, last.mode)
        IN  IF last.pos < Len(list)
            THEN /\ \E n \in 1..Len(series) : series[n] = last.out[2]
                 /\ last.out[2]["datetime"] = Some(list[last.pos + 1]["datetime"])
            ELSE last.out[2] = <<>>

\* forecast_data(1) has returned the second selected record of a series
\* whose first record was pruned
C30_Witness ==
    /\ last.op = "forecast_data"
    /\ last.pos = 1
    /\ last.out[2] # <<>>
    /\ Len(SeriesOf(Client, last.mode)) = 3
    /\ last.out[2] = SeriesOf(Client, last.mode)[3]
    /\ Len(Forecast(Client, last.at, last.mode)[2]) = 2

-----------------------------------------------------------------------------
(* The documents the servers answer with.  An attribute value (a string)   *)
(* is a token: <<"int", n>> for decimal digits, <<"float", tenths>> for a  *)
(* decimal fraction, <<"dt", day, minute>> for a local date and time,      *)
(* <<"date", day>> for a local date, <<"txt", s>> for any other text.  An  *)
(* element is a record of its attributes and children; an attribute it     *)
(* does not have is not in the domain of `attrs`.                          *)

IntTok(n) == <<"int", n>>

FloatTok(tenths) == <<"float", tenths>>

DtTok(day, minute) == <<"dt", day, minute>>

DateTok(day) == <<"date", day>>

Txt(s) == <<"txt", s>>

DayLen == 1440

\* int(x): None is a TypeError, text that is not decimal digits a ValueError
ToInt(raw) ==
    IF raw = None THEN Raise("TypeError")
    ELSE IF raw[1][1] = "int" THEN Ok(raw[1][2])
    ELSE Raise("ValueError")

\* float(x); a float is kept in tenths, tagged
ToFloat(raw) ==
    IF raw = None THEN Raise("TypeError")
    ELSE IF raw[1][1] = "int" THEN Ok(FloatTok(10 * raw[1][2]))
    ELSE IF raw[1][1] = "float" THEN Ok(raw[1])
    ELSE Raise("ValueError")

\* the identity, for _get without a conversion
ToRaw(raw) == IF raw = None THEN Raise("TypeError") ELSE Ok(raw[1])

Convert(func, raw) ==
    CASE func = "int" -> ToInt(raw)
      [] func = "float" -> ToFloat(raw)
      [] OTHER -> ToRaw(raw)

\* element.get(k)
Attr(attrs, k) == IF k \in DOMAIN attrs THEN Some(attrs[k]) ELSE None

\* GismeteoApiClient._get, given var.get(k): a failed conversion gives None
GetConv(raw, func) ==
    IF func = "raw" THEN raw
    ELSE IF IsRaise(Convert(func, raw)) THEN None
    ELSE Some(Convert(func, raw)[2])

\* source[:10]
DatePart(raw) ==
    IF raw = None THEN Raise("TypeError")
    ELSE IF raw[1][1] = "dt" THEN Ok(Some(DateTok(raw[1][2])))
    ELSE Ok(raw)

\* GismeteoApiClient._get_utime: the instant, in minutes, of a local date
\* or date and time in the zone `tzone` minutes east of UTC
GetUtime(source, tzone) ==
    IF source = None THEN Raise("TypeError")
    ELSE IF source[1][1] = "date" THEN Ok(source[1][2] * DayLen - tzone)
    ELSE IF source[1][1] = "dt" THEN Ok(source[1][2] * DayLen + source[1][3] - tzone)
    ELSE Raise("ValueError")

\* datetime.fromtimestamp(x, tz)
FromTimestamp(x) == IF x = None THEN Raise("TypeError") ELSE Ok(x[1])

\* the exceptions async_update and async_update_location turn into ApiError
Caught == {"ParseError", "TypeError", "AttributeError"}

AsApiError(r) == IF IsRaise(r) /\ r[2] \in Caught THEN Raise("ApiError") ELSE r

Values(ws) ==
    Some([attrs |-> [descr |-> Txt("Clear"), tflt |-> FloatTok(55), t |-> IntTok(5),
                     p |-> IntTok(750), hum |-> IntTok(60), ws |-> ws, wd |-> IntTok(2),
                     cl |-> IntTok(0), pt |-> IntTok(0), prflt |-> IntTok(0),
                     pr |-> IntTok(0), ts |-> IntTok(1), grade |-> IntTok(1),
                     ph |-> IntTok(11), water_t |-> Txt("")]])

\* <fact valid=... sunrise=... sunset=...><values .../></fact>
FactElem(ws) ==
    Some([attrs |-> [valid |-> DtTok(0, 60), sunrise |-> IntTok(30), sunset |-> IntTok(900)],
          values |-> Values(ws)])

\* <forecast valid=...><values .../></forecast>
ForecastElem(valid) == [attrs |-> [valid |-> valid], values |-> Values(IntTok(3))]

DayAttrs(day) ==
    [date |-> DateTok(day), sunrise |-> IntTok(day * DayLen + 30),
     sunset |-> IntTok(day * DayLen + 900), descr |-> Txt("Cloudy"), tmax |-> IntTok(7),
     tmin |-> IntTok(1), p |-> IntTok(0), hum |-> IntTok(60), ws |-> IntTok(3),
     wd |-> IntTok(2), cl |-> IntTok(3), pt |-> IntTok(1), prflt |-> FloatTok(12),
     pr |-> IntTok(1), ts |-> IntTok(0), grademax |-> IntTok(2)]

\* a record without the given keys
Without(f, keys) == [k \in DOMAIN f \ keys |-> f[k]]

DayElem(day, missing, valid) ==
    [attrs |-> Without(DayAttrs(day), missing),
     forecasts |-> <<ForecastElem(DtTok(day, 0)), ForecastElem(valid)>>]

LocationElem(tzone, ws, days) ==
    [location |-> Some([attrs |-> [tzone |-> tzone, cur_time |-> DtTok(0, 60),
                                   nowcast_url |-> Txt("/weather-x/")],
                        fact |-> FactElem(ws), days |-> days])]

TwoDays(missing, valid) == <<DayElem(0, {}, DtTok(0, 180)), DayElem(1, missing, valid)>>

\* the forecast documents of the model, by body text
Documents ==
    [b \in {"doc-a", "doc-b", "doc-nosun", "doc-nodate", "doc-badvalid"} |->
        CASE b = "doc-a" -> LocationElem(IntTok(180), IntTok(3), TwoDays({}, DtTok(1, 180)))
          [] b = "doc-b" -> LocationElem(IntTok(180), Txt("-"), <<DayElem(0, {}, DtTok(0, 240))>>)
          [] b = "doc-nosun" ->
                LocationElem(IntTok(180), IntTok(12), TwoDays({"sunrise"}, DtTok(1, 180)))
          [] b = "doc-nodate" ->
                LocationElem(IntTok(180), IntTok(12), TwoDays({"date"}, DtTok(1, 180)))
          [] b = "doc-badvalid" ->
                LocationElem(IntTok(180), IntTok(12), TwoDays({}, Txt("soon")))]

\* the answer of the cities endpoint: <item id=... lat=... lng=.../>
LocationDocuments ==
    [b \in {"loc-a", "loc-noitem", "loc-noid"} |->
        CASE b = "loc-a" ->
                [item |-> Some([attrs |-> [id |-> IntTok(1), lat |-> FloatTok(557),
                                           lng |-> FloatTok(376)]])]
          [] b = "loc-noitem" -> [item |-> None]
          [] b = "loc-noid" ->
                [item |-> Some([attrs |-> [lat |-> FloatTok(557), lng |-> FloatTok(376)]])]]

\* etree.fromstring(response): a coroutine object is a TypeError, text that
\* is not a document a ParseError
FromString(docs, response) ==
    IF response[1] # "text" THEN Raise("TypeError")
    ELSE IF response[2] \in DOMAIN docs THEN Ok(docs[response[2]])
    ELSE Raise("ParseError")

\* the secondary page: its div.widget-row elements, each with its data-row
\* attribute (if any) and the first string of each div.row-item (if any)
Pages ==
    [b \in {"page-a", "page-b", "page-c"} |->
        CASE b = "page-a" ->
                <<[metric |-> Some("wind-gust"), items |-> <<Some(IntTok(9)), Some(IntTok(7))>>],
                  [metric |-> None, items |-> <<Some(Txt("ad"))>>],
                  [metric |-> Some("radiation"), items |-> <<Some(IntTok(3)), Some(Txt("-"))>>],
                  [metric |-> Some("roadcondition"),
                   items |-> <<Some(Txt("dry road")), None>>]>>
          [] b = "page-b" ->
                <<[metric |-> Some("pollen-birch"), items |-> <<Some(IntTok(2))>>],
                  [metric |-> Some("wind-gust"), items |-> <<>>]>>
          [] b = "page-c" ->
                <<[metric |-> None, items |-> <<Some(Txt("ad"))>>],
                  [metric |-> Some("wind-gust"), items |-> <<>>]>>]

\* a parser that refuses text that is not a page
PageRowsStrict(response) ==
    IF response[1] # "text" THEN Raise("TypeError")
    ELSE IF response[2] \in DOMAIN Pages THEN Ok(Pages[response[2]])
    ELSE Raise("AttributeError")

\* BeautifulSoup(response).find_all(...): any text parses, text that is not
\* a page has no rows; a coroutine object is a TypeError
PageRows(response) ==
    IF response[1] # "text" THEN Raise("TypeError")
    ELSE IF response[2] \in DOMAIN Pages THEN Ok(Pages[response[2]])
    ELSE Ok(<<>>)

\* the loop of async_get_parsed: data[today + day][metric] = first string
PageData(rows, today) ==
    LET used == {i \in 1..Len(rows) : rows[i].metric # None}
        holds(i, d) == i \in used /\ d + 1 \in 1..Len(rows[i].items)
        days == {d \in 0..Len(rows) : \E i \in used : holds(i, d)}
        metrics(d) == {rows[i].metric[1] : i \in {j \in used : holds(j, d)}}
        row(d, m) == CHOOSE i \in used :
                        /\ holds(i, d) /\ rows[i].metric[1] = m
                        /\ \A j \in used : (holds(j, d) /\ rows[j].metric[1] = m) => j <= i
    IN  [ts \in {today + d * DayLen : d \in days} |->
            LET d == CHOOSE x \in days : today + x * DayLen = ts
            IN  [m \in metrics(d) |-> rows[row(d, m)].items[d + 1]]]

\* an answer of an endpoint
Answer(body) == [status |-> HttpOk, body |-> body]

Failure == [status |-> NotFound, body |-> ""]

\* the answers of the three endpoints: all is well, or one of them fails
\* or answers something else
Servers ==
    {[location |-> Answer("loc-a"), forecast |-> Answer(b), page |-> Answer("page-a")] :
        b \in {"", "doc-a", "doc-b", "doc-nosun", "doc-nodate", "doc-badvalid"}}
    \union {[location |-> Answer("loc-a"), forecast |-> Failure, page |-> Answer("page-a")],
            [location |-> Failure, forecast |-> Answer("doc-a"), page |-> Answer("page-a")],
            [location |-> Answer("loc-a"), forecast |-> Answer("doc-a"), page |-> Failure],
            [location |-> Answer("loc-a"), forecast |-> Answer("doc-a"), page |-> Answer("")]}

-----------------------------------------------------------------------------
(* api.py: the client's operations.  `env` is what an operation reads      *)
(* besides the client's fields: [has, cfg, fs, t, srv] (the cache, the     *)
(* file system, the clock and the servers' answers).  The client never     *)
(* awaits a cache coroutine, so no operation changes the file system.      *)

ParsedUpdateInterval == 61

Fetch(env, key, resp) == AsyncGetData(env.has, env.cfg, env.fs, env.t, Some(key), resp)

\* a stored value that is an int or a float
Numeric(x) == x # None /\ x[1][1] \in {"int", "float"}

\* a number in tenths
TenthsOf(tok) == IF tok[1] = "int" THEN 10 * tok[2] ELSE tok[2]

NeverZero(x) == FALSE

\* `x == 0`
IsZero(x) == Numeric(x) /\ TenthsOf(x[1]) = 0

\* one call of _async_get_data: the endpoint, the cache key, the number of
\* GETs issued and whether the call returned
Request(url, key, r) == [url |-> url, key |-> key, gets |-> r.gets, ok |-> ~IsRaise(r.out)]

\* the limits of _valid_coordinates, in tenths of a degree
LatLimit == 900

LonLimit == 1800

Abs(x) == IF x < 0 THEN -x ELSE x

ValidCoordinatesStrict(latitude, longitude) ==
    /\ Numeric(latitude) /\ Numeric(longitude)
    /\ Abs(TenthsOf(latitude[1])) < LatLimit
    /\ Abs(TenthsOf(longitude[1])) < LonLimit

\* GismeteoApiClient._valid_coordinates: a failed assert is caught
ValidCoordinates(latitude, longitude) ==
    /\ Numeric(latitude) /\ Numeric(longitude)
    /\ Abs(TenthsOf(latitude[1])) <= LatLimit
    /\ Abs(TenthsOf(longitude[1])) <= LonLimit

\* GismeteoApiClient.__init__: the attributes of the new client, or the
\* exception that leaves the constructor
Construct(location_key, latitude, longitude) ==
    IF location_key # None THEN Ok([id |-> location_key])
    ELSE IF ValidCoordinates(latitude, longitude)
         THEN Ok([latitude |-> latitude, longitude |-> longitude])
    ELSE Raise("InvalidCoordinatesError")

\* cache_fname of async_update_location
LocationKey(attrs) == <<"location_", attrs["latitude"], attrs["longitude"]>>

\* the try block of async_update_location
LocationOf(attrs, xml, reqs) ==
    IF IsRaise(xml) THEN [out |-> AsApiError(xml), attributes |-> attrs, reqs |-> reqs]
    ELSE IF xml[2].item = None
         THEN [out |-> Raise("ApiError"), attributes |-> attrs, reqs |-> reqs]
    ELSE [out |-> Ok(None), reqs |-> reqs,
          attributes |-> [id |-> GetConv(Attr(xml[2].item[1].attrs, "id"), "int"),
                          latitude |-> GetConv(Attr(xml[2].item[1].attrs, "lat"), "float"),
                          longitude |-> GetConv(Attr(xml[2].item[1].attrs, "lng"), "float")]]

\* GismeteoApiClient.async_update_location
AsyncUpdateLocation(attrs, env) ==
    IF "latitude" \notin DOMAIN attrs
    THEN [out |-> Raise("KeyError"), attributes |-> attrs, reqs |-> <<>>]
    ELSE IF IsZero(attrs["latitude"]) /\ IsZero(attrs["longitude"])
    THEN [out |-> Ok(None), attributes |-> attrs, reqs |-> <<>>]
    ELSE Bind(Fetch(env, LocationKey(attrs), env.srv.location),
              LAMBDA r :
                 IF IsRaise(r.out)
                 THEN [out |-> r.out, attributes |-> attrs,
                       reqs |-> <<Request("location", LocationKey(attrs), r)>>]
                 ELSE Bind(FromString(LocationDocuments, r.out),
                           LAMBDA xml :
                              LocationOf(attrs, xml,
                                         <<Request("location", LocationKey(attrs), r)>>)))

\* cache_fname of async_get_forecast
ForecastKey(attrs) == <<"forecast_", attrs["id"]>>

\* GismeteoApiClient.async_get_forecast
AsyncGetForecast(attrs, env) ==
    Bind(IF "id" \notin DOMAIN attrs THEN AsyncUpdateLocation(attrs, env)
         ELSE [out |-> Ok(None), attributes |-> attrs, reqs |-> <<>>],
         LAMBDA loc :
            IF IsRaise(loc.out) \/ "id" \notin DOMAIN loc.attributes
            THEN [out |-> IF IsRaise(loc.out) THEN loc.out ELSE Text(""),
                  attributes |-> loc.attributes, reqs |-> loc.reqs]
            ELSE Bind(Fetch(env, ForecastKey(loc.attributes), env.srv.forecast),
                      LAMBDA r :
                         [out |-> r.out, attributes |-> loc.attributes,
                          reqs |-> Append(loc.reqs,
                                          Request("forecast", ForecastKey(loc.attributes), r))]))

\* the head of async_get_parsed: location, tzone and today of the document
TodayOf(xml) ==
    IF IsRaise(xml) THEN xml
    ELSE IF xml[2].location = None THEN Raise("AttributeError")
    ELSE LET location == xml[2].location[1].attrs
             tzone == ToInt(Attr(location, "tzone"))
             day == DatePart(Attr(location, "cur_time"))
         IN  IF IsRaise(tzone) THEN tzone
             ELSE IF IsRaise(day) THEN day
             ELSE GetUtime(day[2], tzone[2])

\* cache_fname of async_get_parsed
PageKey(attrs) == <<"forecast_parsed_", attrs["id"]>>

\* the rest of async_get_parsed: the request for the secondary page and
\* the loop over its rows
PageOf(f, today, env) ==
    Bind(Fetch(env, PageKey(f.attributes), env.srv.page),
         LAMBDA r :
            Bind(IF IsRaise(r.out) THEN r.out ELSE PageRows(r.out),
                 LAMBDA rows :
                    [out |-> IF IsRaise(rows) THEN rows ELSE Ok(PageData(rows[2], today)),
                     attributes |-> f.attributes, fetched |-> r.gets,
                     reqs |-> Append(f.reqs, Request("page", PageKey(f.attributes), r))]))

\* GismeteoApiClient.async_get_parsed; `fetched` counts the requests for
\* the secondary page
AsyncGetParsed(attrs, env) ==
    Bind(AsyncGetForecast(attrs, env),
         LAMBDA f :
            IF IsRaise(f.out)
            THEN [out |-> f.out, attributes |-> f.attributes, fetched |-> 0, reqs |-> f.reqs]
            ELSE Bind(TodayOf(FromString(Documents, f.out)),
                      LAMBDA today :
                         IF IsRaise(today)
                         THEN [out |-> today, attributes |-> f.attributes, fetched |-> 0,
                               reqs |-> f.reqs]
                         ELSE PageOf(f, today[2], env)))

\* Throttle(PARSED_UPDATE_INTERVAL): the method runs if it never ran or
\* more than the interval has passed since it was last started
Throttled(thr, t) == thr # None /\ ~(t - thr[1] > ParsedUpdateInterval)

\* GismeteoApiClient.async_update_parsed, throttled: the start of a run is
\* noted whether or not the run fails
AsyncUpdateParsed(attrs, old, thr, env) ==
    IF Throttled(thr, env.t)
    THEN [out |-> Ok(None), attributes |-> attrs, parsed |-> old, throttle |-> thr,
          fetched |-> 0, reqs |-> <<>>]
    ELSE Bind(AsyncGetParsed(attrs, env),
              LAMBDA r : [out |-> IF IsRaise(r.out) THEN r.out ELSE Ok(None),
                          attributes |-> r.attributes,
                          parsed |-> IF IsRaise(r.out) THEN old ELSE r.out[2],
                          throttle |-> Some(env.t), fetched |-> r.fetched,
                          reqs |-> r.reqs])

\* `x == 1` for x an attribute value: a str (or None) never equals an int
EqualsOne(raw) == FALSE

\* the fields read from a <values> element or a <day>, as <<key, attribute,
\* conversion>>, in the order of the dict literal
CurrentFields ==
    <<<<"condition", "descr", "raw">>, <<"native_temperature", "tflt", "float">>,
      <<"native_pressure", "p", "int">>, <<"humidity", "hum", "int">>,
      <<"native_wind_speed", "ws", "int">>, <<"wind_bearing", "wd", "int">>,
      <<"cloud_coverage", "cl", "int">>, <<"precipitation_type", "pt", "int">>,
      <<"precipitation_amount", "prflt", "float">>,
      <<"precipitation_intensity", "pr", "int">>, <<"is_storm", "ts", "eq1">>,
      <<"geomagnetic_field", "grade", "int">>, <<"phenomenon", "ph", "int">>,
      <<"water_temperature", "water_t", "float">>>>

HourlyFields ==
    <<<<"condition", "descr", "raw">>, <<"native_temperature", "t", "int">>,
      <<"native_pressure", "p", "int-or-none">>, <<"humidity", "hum", "int">>,
      <<"native_wind_speed", "ws", "int">>, <<"wind_bearing", "wd", "int">>,
      <<"cloud_coverage", "cl", "int">>, <<"precipitation_type", "pt", "int">>,
      <<"precipitation_amount", "prflt", "float">>,
      <<"precipitation_intensity", "pr", "int">>, <<"is_storm", "ts", "eq1">>,
      <<"geomagnetic_field", "grade", "int">>>>

DailyFields ==
    <<<<"condition", "descr", "raw">>, <<"native_temperature", "tmax", "int">>,
      <<"native_templow", "tmin", "int">>,
      <<"native_pressure", "p", "int-or-none">>, <<"humidity", "hum", "int">>,
      <<"native_wind_speed", "ws", "int">>, <<"wind_bearing", "wd", "int">>,
      <<"cloud_coverage", "cl", "int">>, <<"precipitation_type", "pt", "int">>,
      <<"precipitation_amount", "prflt", "float">>,
      <<"precipitation_intensity", "pr", "int">>, <<"is_storm", "ts", "eq1">>,
      <<"geomagnetic_field", "grademax", "int">>>>

ParsedFields ==
    <<<<"native_wind_gust_speed", "wind-gust", "int">>,
      <<"pollen_birch", "pollen-birch", "int">>, <<"pollen_grass", "pollen-grass", "int">>,
      <<"pollen_ragweed", "pollen-ragweed", "int">>, <<"uv_index", "radiation", "int">>,
      <<"road_condition", "roadcondition", "raw">>>>

\* one value of a dict literal
FieldValue(raw, func) ==
    CASE func = "eq1" -> Some(EqualsOne(raw))
      [] func = "int-or-none" ->
            IF GetConv(raw, "int") = Some(0) THEN None ELSE GetConv(raw, "int")
      [] OTHER -> GetConv(raw, func)

Keys(fields) == {fields[i][1] : i \in 1..Len(fields)}

FieldOf(fields, k) == fields[CHOOSE i \in 1..Len(fields) : fields[i][1] = k]

\* the part of a dict literal that reads the attributes of one element
FieldsFrom(attrs, fields) ==
    [k \in Keys(fields) |-> FieldValue(Attr(attrs, FieldOf(fields, k)[2]), FieldOf(fields, k)[3])]

\* the data.update(...) from a SecondaryByDay entry
FieldsFromParsed(entry) ==
    [k \in Keys(ParsedFields) |->
        FieldValue(Get(entry, FieldOf(ParsedFields, k)[2]), FieldOf(ParsedFields, k)[3])]

\* dict | dict
Merge(f, g) == [k \in DOMAIN f \union DOMAIN g |-> IF k \in DOMAIN g THEN g[k] ELSE f[k]]

\* a lookup that takes whichever entry there is, whatever its day
ParsedEntryAny(prs, ts) == IF prs = <<>> THEN <<>> ELSE prs[CHOOSE k \in DOMAIN prs : TRUE]

\* self._parsed.get(ts), with None as the empty dict (both are falsy)
ParsedEntry(prs, ts) == IF ts \in DOMAIN prs THEN prs[ts] ELSE <<>>

WithParsed(data, entry) == IF entry # <<>> THEN Merge(data, FieldsFromParsed(entry)) ELSE data

\* the sunrise and sunset of a <fact> or <day>
SunOf(attrs) ==
    LET sunrise == FromTimestamp(GetConv(Attr(attrs, "sunrise"), "int"))
        sunset == FromTimestamp(GetConv(Attr(attrs, "sunset"), "int"))
    IN  IF IsRaise(sunrise) THEN sunrise
        ELSE IF IsRaise(sunset) THEN sunset
        ELSE Ok([sunrise |-> Some(sunrise[2]), sunset |-> Some(sunset[2])])

\* the dict literal assigned to self._current
CurrentRecord(fact) ==
    Bind(SunOf(fact.attrs),
         LAMBDA sun :
            IF IsRaise(sun) THEN sun
            ELSE IF fact.values = None THEN Raise("AttributeError")
            ELSE Ok(Merge(sun[2], FieldsFrom(fact.values[1].attrs, CurrentFields))))

\* the dict literal of one <forecast> element, and its update from the
\* SecondaryByDay entry of its day
HourlyData(sun, fc, tstamp, tstamp_day, prs) ==
    WithParsed(Merge(Merge(sun, [datetime |-> Some(tstamp),
                                 is_daytime |-> Some(sun.sunrise[1] < tstamp
                                                     /\ tstamp < sun.sunset[1])]),
                     FieldsFrom(fc.values[1].attrs, HourlyFields)),
               ParsedEntry(prs, tstamp_day))

\* the record of one <forecast> element
HourlyRecord(sun, fc, tzone, prs) ==
    Bind(GetUtime(Attr(fc.attrs, "valid"), tzone),
         LAMBDA tstamp :
            IF IsRaise(tstamp) THEN tstamp
            ELSE Bind(GetUtime(DatePart(Attr(fc.attrs, "valid"))[2], tzone),
                      LAMBDA tstamp_day :
                         IF IsRaise(tstamp_day) THEN tstamp_day
                         ELSE IF fc.values = None THEN Raise("AttributeError")
                         ELSE Ok(HourlyData(sun, fc, tstamp[2], tstamp_day[2], prs))))

\* the inner loop of the hourly update: the records appended so far and
\* the exception that stopped the loop, if any
RECURSIVE DayForecasts(_, _, _, _, _, _)
DayForecasts(forecasts, sun, tzone, prs, j, acc) ==
    IF j > Len(forecasts) THEN [list |-> acc, out |-> Ok(None)]
    ELSE Bind(HourlyRecord(sun, forecasts[j], tzone, prs),
              LAMBDA data :
                 IF IsRaise(data) THEN [list |-> acc, out |-> data]
                 ELSE Bind(Append(acc, data[2]),
                           LAMBDA list : DayForecasts(forecasts, sun, tzone, prs, j + 1, list)))

\* one day of the outer loop, its sunrise and sunset known
DayOf(day, sun, tzone, prs, acc) ==
    Bind(DayForecasts(day.forecasts, sun, tzone, prs, 1, acc),
         LAMBDA inner : [list |-> inner.list, out |-> inner.out, sun |-> sun])

\* the outer loop of the hourly update; `sun` is the sunrise and sunset of
\* the last day seen
RECURSIVE HourlyLoop(_, _, _, _, _, _)
HourlyLoop(days, tzone, prs, i, acc, sun) ==
    IF i > Len(days) THEN [list |-> acc, out |-> Ok(None), sun |-> sun]
    ELSE Bind(SunOf(days[i].attrs),
              LAMBDA s :
                 IF IsRaise(s) THEN [list |-> acc, out |-> s, sun |-> sun]
                 ELSE Bind(DayOf(days[i], s[2], tzone, prs, acc),
                           LAMBDA day :
                              IF IsRaise(day.out) THEN day
                              ELSE HourlyLoop(days, tzone, prs, i + 1, day.list, day.sun)))

\* the record of one <day descr=...> element
DailyRecord(sun, day, tzone, prs) ==
    Bind(GetUtime(Attr(day.attrs, "date"), tzone),
         LAMBDA tstamp :
            IF IsRaise(tstamp) THEN tstamp
            ELSE Ok(WithParsed(Merge(Merge(sun, [datetime |-> Some(tstamp[2])]),
                                     FieldsFrom(day.attrs, DailyFields)),
                               ParsedEntry(prs, tstamp[2]))))

\* the loop of the daily update over the days that have a descr attribute
RECURSIVE DailyLoop(_, _, _, _, _, _)
DailyLoop(days, sun, tzone, prs, i, acc) ==
    IF i > Len(days) THEN [list |-> acc, out |-> Ok(None)]
    ELSE IF "descr" \notin DOMAIN days[i].attrs
         THEN DailyLoop(days, sun, tzone, prs, i + 1, acc)
    ELSE Bind(DailyRecord(sun, days[i], tzone, prs),
              LAMBDA data :
                 IF IsRaise(data) THEN [list |-> acc, out |-> data]
                 ELSE Bind(Append(acc, data[2]),
                           LAMBDA list : DailyLoop(days, sun, tzone, prs, i + 1, list)))

\* the head of the try block of async_update: fact, tzone and today
FactOf(xml) ==
    IF IsRaise(xml) THEN xml
    ELSE IF xml[2].location = None \/ xml[2].location[1].fact = None
         THEN Raise("AttributeError")
    ELSE Bind(ToInt(Attr(xml[2].location[1].attrs, "tzone")),
              LAMBDA tzone :
                 IF IsRaise(tzone) THEN tzone
                 ELSE IF IsRaise(GetUtime(Attr(xml[2].location[1].fact[1].attrs, "valid"),
                                          tzone[2]))
                      THEN GetUtime(Attr(xml[2].location[1].fact[1].attrs, "valid"), tzone[2])
                 ELSE Ok([fact |-> xml[2].location[1].fact[1], tzone |-> tzone[2],
                          days |-> xml[2].location[1].days]))

Left(st, out, called, fetched) ==
    [st |-> st, out |-> AsApiError(out), called |-> called, fetched |-> fetched,
     reqs |-> <<>>]

\* the daily update, the last step of async_update
UpdateDaily(st, head, hourly, fetched) ==
    Bind(DailyLoop(head.days, hourly.sun, head.tzone, st.parsed, 1, <<>>),
         LAMBDA daily :
            Left([st EXCEPT !.daily = daily.list],
                 IF IsRaise(daily.out) THEN daily.out ELSE <<"bool", TRUE>>, 1, fetched))

\* the hourly update: self._forecast_hourly is emptied and filled record
\* by record
UpdateHourly(st, head, fetched) ==
    Bind(HourlyLoop(head.days, head.tzone, st.parsed, 1, <<>>, <<>>),
         LAMBDA hourly :
            IF IsRaise(hourly.out)
            THEN Left([st EXCEPT !.hourly = hourly.list], hourly.out, 1, fetched)
            ELSE UpdateDaily([st EXCEPT !.hourly = hourly.list], head, hourly, fetched))

\* the assignment of self._current and what follows it
UpdateCurrent(st, head, fetched) ==
    Bind(CurrentRecord(head.fact),
         LAMBDA cur :
            IF IsRaise(cur) THEN Left(st, cur, 1, fetched)
            ELSE UpdateHourly([st EXCEPT !.current = cur[2]], head, fetched))

\* the try block of async_update from the call of async_update_parsed on
UpdateFrom(st, head, env) ==
    Bind(AsyncUpdateParsed(st.attributes, st.parsed, st.throttle, env),
         LAMBDA up :
            Bind([st EXCEPT !.attributes = up.attributes, !.parsed = up.parsed,
                            !.throttle = up.throttle],
                 LAMBDA st2 :
                    Bind(IF IsRaise(up.out) THEN Left(st2, up.out, 1, up.fetched)
                         ELSE UpdateCurrent(st2, head, up.fetched),
                         LAMBDA r : [r EXCEPT !.reqs = up.reqs])))

\* GismeteoApiClient.async_update: the client's fields after the call, its
\* result (TRUE or the exception that leaves it), and how often the
\* throttled method was called and the secondary page requested
AsyncUpdate(st, env) ==
    Bind(AsyncGetForecast(st.attributes, env),
         LAMBDA f :
            Bind([st EXCEPT !.attributes = f.attributes],
                 LAMBDA st1 :
                    Bind(IF IsRaise(f.out) THEN Left(st1, f.out, 0, 0)
                         ELSE Bind(FactOf(FromString(Documents, f.out)),
                                   LAMBDA head :
                                      IF IsRaise(head) THEN Left(st1, head, 0, 0)
                                      ELSE UpdateFrom(st1, head[2], env)),
                         LAMBDA r : [r EXCEPT !.reqs = f.reqs \o r.reqs])))

-----------------------------------------------------------------------------
(* The client specification: updates against servers whose answers vary,   *)
(* on a clock that passes the throttle interval.                           *)

\* the client's fields
State == [attributes |-> attributes, current |-> current, hourly |-> forecastHourly,
          daily |-> forecastDaily, parsed |-> parsed, throttle |-> throttle]

Env(srv) == [has |-> hasCache, cfg |-> cache, fs |-> files, t |-> now, srv |-> srv]

\* the instants the clock takes: around one throttle interval after 0
Instants == {0, ParsedUpdateInterval - 1, ParsedUpdateInterval, ParsedUpdateInterval + 1}

\* the client as constructed: by location key or by coordinates
InitAttributes ==
    {[id |-> Some(1)],
     [latitude |-> Some(FloatTok(557)), longitude |-> Some(FloatTok(376))]}

CacheParams == [dir |-> "cache", time |-> 5, domain |-> "gismeteo"]

Init ==
    /\ now = 0
    /\ hasCache \in BOOLEAN
    /\ cache = IF hasCache THEN CacheParams ELSE NoCache
    /\ files = [p \in PathsOf(cache) |-> None]
    /\ saved = [p \in PathsOf(cache) |-> None]
    /\ attributes \in InitAttributes
    /\ current = <<>>
    /\ forecastHourly = <<>>
    /\ forecastDaily = <<>>
    /\ parsed = <<>>
    /\ throttle = None
    /\ calls = <<>>
    /\ last = [op |-> "idle"]

\* the first two calls of async_update_parsed: when each was made and how
\* many requests for the secondary page it caused
Noted(n, fetched) ==
    IF n = 0 \/ Len(calls) >= 2 THEN calls
    ELSE Append(calls, [at |-> now, fetched |-> fetched])

Assign(st) ==
    /\ attributes' = st.attributes
    /\ current' = st.current
    /\ forecastHourly' = st.hourly
    /\ forecastDaily' = st.daily
    /\ parsed' = st.parsed
    /\ throttle' = st.throttle

\* await client.async_update(), the servers answering `srv`
Update(srv) ==
    \E r \in {AsyncUpdate(State, Env(srv))} :
        /\ Assign(r.st)
        /\ calls' = Noted(r.called, r.fetched)
        /\ last' = [op |-> "async_update", out |-> r.out, reqs |-> r.reqs,
                    got |-> IF \E i \in DOMAIN r.reqs :
                                    /\ r.reqs[i].url = "forecast"
                                    /\ r.reqs[i].gets = 1 /\ r.reqs[i].ok
                            THEN Some(srv.forecast.body) ELSE None]
        /\ UNCHANGED <<now, hasCache, cache, files, saved>>

\* await client.async_update_parsed(), the servers answering `srv`
UpdateParsed(srv) ==
    \E r \in {AsyncUpdateParsed(attributes, parsed, throttle, Env(srv))} :
        /\ Assign([State EXCEPT !.attributes = r.attributes, !.parsed = r.parsed,
                                !.throttle = r.throttle])
        /\ calls' = Noted(1, r.fetched)
        /\ last' = [op |-> "async_update_parsed", out |-> r.out, reqs |-> r.reqs]
        /\ UNCHANGED <<now, hasCache, cache, files, saved>>

\* time passes
Tick ==
    /\ \E t \in Instants : t > now /\ now' = t
    /\ UNCHANGED <<hasCache, cache, files, saved, clientVars, envVars, last>>

Next ==
    \/ \E srv \in Servers : Update(srv)
    \/ \E srv \in Servers : UpdateParsed(srv)
    \/ Tick

Spec == Init /\ [][Next]_vars

-----------------------------------------------------------------------------
(* The location specification: construction from drawn arguments, then     *)
(* location resolution and the forecast request against servers whose      *)
(* answers vary.  No client exists (attributes is empty) until one is      *)
(* constructed.                                                            *)

\* the latitude and longitude arguments: missing, text, in and out of range
CoordInputs ==
    {None, Some(Txt("n/a")), Some(IntTok(0)), Some(IntTok(90))}
    \union {Some(FloatTok(x)) : x \in {-1801, -1800, -901, -900, 0, 557, 900, 901, 1800, 1801}}

LocServers ==
    {[location |-> a, forecast |-> f, page |-> Answer("page-a")] :
        a \in {Answer("loc-a"), Answer("loc-noitem"), Answer("loc-noid"), Answer(""), Failure},
        f \in {Answer("doc-a"), Failure}}

InitLocation ==
    /\ now = 0
    /\ hasCache \in BOOLEAN
    /\ cache = IF hasCache THEN CacheParams ELSE NoCache
    /\ files = [p \in PathsOf(cache) |-> None]
    /\ saved = [p \in PathsOf(cache) |-> None]
    /\ attributes = <<>>
    /\ current = <<>>
    /\ forecastHourly = <<>>
    /\ forecastDaily = <<>>
    /\ parsed = <<>>
    /\ throttle = None
    /\ calls = <<>>
    /\ last \in [op : {"idle"}, key : {None, Some(1)}, latitude : CoordInputs,
                 longitude : CoordInputs, out : {<<"none">>}]

\* GismeteoApiClient(session, key, latitude, longitude, params), on the
\* arguments drawn at the start
NewClient ==
    /\ last.op = "idle"
    /\ \E r \in {Construct(last.key, last.latitude, last.longitude)} :
          /\ attributes' = IF IsRaise(r) THEN <<>> ELSE r[2]
          /\ last' = [last EXCEPT !.op = "construct", !.out = r]
    /\ UNCHANGED <<now, hasCache, cache, files, saved, current, forecastHourly,
                   forecastDaily, parsed, throttle, calls>>

\* await client.async_update_location(), the servers answering `srv`
UpdateLocation(srv) ==
    /\ attributes # <<>>
    /\ \E r \in {AsyncUpdateLocation(attributes, Env(srv))} :
          /\ attributes' = r.attributes
          /\ last' = [op |-> "async_update_location", out |-> r.out, reqs |-> r.reqs,
                      srv |-> srv, before |-> attributes]
    /\ UNCHANGED <<now, hasCache, cache, files, saved, current, forecastHourly,
                   forecastDaily, parsed, throttle, calls>>

\* await client.async_get_forecast(), the servers answering `srv`
GetForecast(srv) ==
    /\ attributes # <<>>
    /\ \E r \in {AsyncGetForecast(attributes, Env(srv))} :
          /\ attributes' = r.attributes
          /\ last' = [op |-> "async_get_forecast", out |-> r.out, reqs |-> r.reqs,
                      srv |-> srv, before |-> attributes]
    /\ UNCHANGED <<now, hasCache, cache, files, saved, current, forecastHourly,
                   forecastDaily, parsed, throttle, calls>>

NextLocation ==
    \/ NewClient
    \/ \E srv \in LocServers : UpdateLocation(srv)
    \/ \E srv \in LocServers : GetForecast(srv)

SpecLocation == InitLocation /\ [][NextLocation]_vars

\* the lookup was requested and answered with the given body
LookupAnswered(bodies) ==
    /\ last.reqs # <<>>
    /\ last.reqs[1].url = "location" /\ last.reqs[1].gets = 1 /\ last.reqs[1].ok
    /\ last.srv.location.body \in bodies

\* C13: async_update_location raises ApiError and leaves the identity as
\* it was whenever the lookup response is not XML, has no item element, or
\* has an item element without the id, lat or lng attribute
C13_BadLookupRaisesApiError ==
    (last.op = "async_update_location" /\ LookupAnswered({"", "loc-noitem", "loc-noid"})) =>
        /\ last.out = Raise("ApiError")
        /\ attributes = last.before

ZeroCoordinates(attrs) ==
    /\ "latitude" \in DOMAIN attrs
    /\ attrs["latitude"] \in {Some(IntTok(0)), Some(FloatTok(0))}
    /\ attrs["longitude"] \in {Some(IntTok(0)), Some(FloatTok(0))}

\* C14: for a client whose coordinates are (0, 0), async_update_location
\* returns without any call of the fetcher (no request, no cache access)
\* and leaves the identity as it was, without a location id
C14_ZeroCoordinatesSkip ==
    (last.op = "async_update_location" /\ ZeroCoordinates(last.before)) =>
        /\ last.out = Ok(None)
        /\ last.reqs = <<>>
        /\ attributes = last.before
        /\ "id" \notin DOMAIN attributes

\* a client with a cache and coordinates (0, 0) has skipped the lookup
\* while the server would have answered it
C14_Witness ==
    /\ last.op = "async_update_location"
    /\ ZeroCoordinates(last.before)
    /\ hasCache
    /\ last.srv.location = Answer("loc-a")
    /\ last.reqs = <<>>

\* the identity holds no location id
NoId(attrs) == "id" \notin DOMAIN attrs \/ attrs["id"] = None

\* the call was left by an exception of location resolution
ResolutionFailed ==
    IsRaise(last.out) /\ (last.reqs = <<>> \/ last.reqs[Len(last.reqs)].url = "location")

\* C15: async_get_forecast on a client without a location id first runs
\* location resolution; if the identity has no id afterwards it returns the
\* empty string without a forecast request and without raising; if an id is
\* known it fetches the forecast of that id under the key forecast_{id}
C15_ForecastNeedsId ==
    last.op = "async_get_forecast" =>
        /\ ("id" \notin DOMAIN last.before /\ ~ZeroCoordinates(last.before)) =>
              (last.reqs # <<>> /\ last.reqs[1].url = "location")
        /\ (~ResolutionFailed /\ NoId(attributes)) =>
              /\ last.out = Text("")
              /\ \A i \in DOMAIN last.reqs : last.reqs[i].url # "forecast"
        /\ (~ResolutionFailed /\ ~NoId(attributes)) =>
              /\ last.reqs # <<>>
              /\ last.reqs[Len(last.reqs)].url = "forecast"
              /\ last.reqs[Len(last.reqs)].key = <<"forecast_", attributes["id"]>>

\* the coordinates are numbers within the limits, the limits included
InRange(latitude, longitude) ==
    /\ latitude # None /\ longitude # None
    /\ latitude[1][1] \in {"int", "float"} /\ longitude[1][1] \in {"int", "float"}
    /\ TenthsOf(latitude[1]) \in -900..900
    /\ TenthsOf(longitude[1]) \in -1800..1800

\* C16: constructing a client without a location id succeeds if and only
\* if latitude and longitude are both numbers with |lat| <= 90 and
\* |lon| <= 180; otherwise InvalidCoordinatesError is raised and no client
\* exists
C16_ConstructionIffValid ==
    (last.op = "construct" /\ last.key = None) =>
        IF InRange(last.latitude, last.longitude)
        THEN /\ last.out = Ok([latitude |-> last.latitude, longitude |-> last.longitude])
             /\ attributes = [latitude |-> last.latitude, longitude |-> last.longitude]
        ELSE /\ last.out = Raise("InvalidCoordinatesError")
             /\ attributes = <<>>

\* a client was constructed on the limits of both coordinates
C16_Witness ==
    /\ last.op = "construct"
    /\ last.key = None
    /\ last.latitude = Some(FloatTok(-900))
    /\ last.longitude = Some(FloatTok(1800))
    /\ attributes = [latitude |-> Some(FloatTok(-900)), longitude |-> Some(FloatTok(1800))]

\* C23: once the identity holds a location id, it holds a non-null
\* location id after every later operation of the client, whether that
\* operation succeeds or fails
C23_IdNeverLost ==
    [][~NoId(attributes) => ~NoId(attributes')]_vars

-----------------------------------------------------------------------------
(* The merge specification: updates of a client without a cache against    *)
(* servers whose forecast is well formed while the secondary page varies:  *)
(* two days of metrics, one day, rows without a metric or without cells,   *)
(* text that is no page at all.  `last` keeps the answers and the client's *)
(* fields before the call.                                                 *)

MergeServers ==
    {[location |-> Answer("loc-a"), forecast |-> Answer(b), page |-> Answer(p)] :
        b \in {"doc-a", "doc-b"}, p \in {"page-a", "page-b", "page-c", ""}}

InitMerge ==
    /\ now = 0
    /\ hasCache = FALSE
    /\ cache = NoCache
    /\ files = [p \in PathsOf(cache) |-> None]
    /\ saved = [p \in PathsOf(cache) |-> None]
    /\ attributes \in InitAttributes
    /\ current = <<>>
    /\ forecastHourly = <<>>
    /\ forecastDaily = <<>>
    /\ parsed = <<>>
    /\ throttle = None
    /\ calls = <<>>
    /\ last = [op |-> "idle"]

\* await client.async_update(), the servers answering `srv`
MergeUpdate(srv) ==
    \E r \in {AsyncUpdate(State, Env(srv))} :
        /\ Assign(r.st)
        /\ last' = [op |-> "async_update", out |-> r.out, reqs |-> r.reqs, srv |-> srv,
                    before |-> State]
        /\ UNCHANGED <<now, hasCache, cache, files, saved, calls>>

\* await client.async_get_parsed(), the servers answering `srv`
MergeGetParsed(srv) ==
    \E r \in {AsyncGetParsed(attributes, Env(srv))} :
        /\ attributes' = r.attributes
        /\ last' = [op |-> "async_get_parsed", out |-> r.out, reqs |-> r.reqs, srv |-> srv,
                    before |-> State]
        /\ UNCHANGED <<now, hasCache, cache, files, saved, current, forecastHourly,
                       forecastDaily, parsed, throttle, calls>>

NextMerge ==
    \/ \E srv \in MergeServers : MergeUpdate(srv)
    \/ \E srv \in MergeServers : MergeGetParsed(srv)
    \/ Tick

SpecMerge == InitMerge /\ [][NextMerge]_vars

\* the keys of the supplemental fields
Supplemental ==
    {"native_wind_gust_speed", "pollen_birch", "pollen_grass", "pollen_ragweed",
     "uv_index", "road_condition"}

\* the call requested the secondary page and the page was answered
PageAnswered ==
    \E i \in DOMAIN last.reqs :
        last.reqs[i].url = "page" /\ last.reqs[i].gets = 1 /\ last.reqs[i].ok

\* the <day> elements of the forecast the servers answered
AnsweredDays == Documents[last.srv.forecast.body].location[1].days

RECURSIVE CountForecasts(_, _)
CountForecasts(days, i) ==
    IF i > Len(days) THEN 0 ELSE Len(days[i].forecasts) + CountForecasts(days, i + 1)

\* C21: when the secondary page lacks the metric rows or their cells,
\* async_get_parsed returns an empty mapping without raising, and the
\* enclosing async_update succeeds with SecondaryByDay empty and a current
\* record and all hourly and daily records of the primary document, none
\* of them carrying a supplemental field
C21_PageMismatchIsEmpty ==
    (last.op \in {"async_get_parsed", "async_update"}
        /\ PageAnswered /\ last.srv.page.body \in {"page-c", ""}) =>
        IF last.op = "async_get_parsed" THEN last.out = Ok(<<>>)
        ELSE /\ last.out = <<"bool", TRUE>>
             /\ parsed = <<>>
             /\ current # <<>> /\ DOMAIN current \cap Supplemental = {}
             /\ Len(forecastHourly) = CountForecasts(AnsweredDays, 1)
             /\ Len(forecastDaily) = Len(AnsweredDays)
             /\ \A i \in 1..Len(forecastHourly) :
                   DOMAIN forecastHourly[i] \cap Supplemental = {}
             /\ \A i \in 1..Len(forecastDaily) :
                   DOMAIN forecastDaily[i] \cap Supplemental = {}

\* an update succeeded on a page whose rows have no metric or no cells,
\* replacing the metrics of an earlier page
C21_Witness ==
    /\ last.op = "async_update"
    /\ PageAnswered /\ last.srv.page.body = "page-c"
    /\ last.srv.forecast.body = "doc-a"
    /\ last.before.parsed # <<>>
    /\ last.out = <<"bool", TRUE>>
    /\ parsed = <<>>
    /\ Len(forecastHourly) = 4

-----------------------------------------------------------------------------
(* Claims about the client, checked under Spec *)

\* C1: if async_update raises, CurrentConditions and the hourly and daily
\* series are each exactly what they were before the call
C1_FailedUpdateLeavesState ==
    [][(last'.op = "async_update" /\ IsRaise(last'.out)) =>
        (current' = current /\ forecastHourly' = forecastHourly
         /\ forecastDaily' = forecastDaily)]_vars

\* the documents of the model in which exactly one attribute read by
\* async_update is missing or not convertible: the wind speed of
\* fact/values is "-", the second day has no sunrise
Degraded == {"doc-b", "doc-nosun"}

\* the same document with that attribute well formed
WellFormed(b) ==
    IF b = "doc-b" THEN LocationElem(IntTok(180), IntTok(3), <<DayElem(0, {}, DtTok(0, 240))>>)
    ELSE LocationElem(IntTok(180), IntTok(12), TwoDays({}, DtTok(1, 180)))

\* the fields the degraded attribute is stored in, per kind of record
AffectedFields(b) ==
    IF b = "doc-b" THEN [current |-> {"native_wind_speed"}, hourly |-> {}, daily |-> {}]
    ELSE [current |-> {}, hourly |-> {"sunrise", "is_daytime"}, daily |-> {"sunrise"}]

\* the records an update from the well-formed document leaves, the
\* SecondaryByDay data being what it is now
FromWellFormed(b) == UpdateCurrent(State, FactOf(Ok(WellFormed(b)))[2], 0).st

\* rec is exp, except that an affected field may hold null
SameBut(rec, exp, fields) ==
    /\ DOMAIN rec = DOMAIN exp
    /\ \A k \in DOMAIN rec : rec[k] = exp[k] \/ (k \in fields /\ rec[k] = None)

SameSeriesBut(series, exp, fields) ==
    /\ Len(series) = Len(exp)
    /\ \A i \in 1..Len(series) : SameBut(series[i], exp[i], fields)

\* C11: if exactly one attribute read during async_update is missing or
\* not convertible, the update succeeds and the records are those of the
\* well-formed document, except that the affected field holds null
C11_FieldLevelDegradation ==
    (last.op = "async_update" /\ last.got # None /\ last.got[1] \in Degraded) =>
        /\ last.out = <<"bool", TRUE>>
        /\ SameBut(current, FromWellFormed(last.got[1]).current,
                   AffectedFields(last.got[1]).current)
        /\ SameSeriesBut(forecastHourly, FromWellFormed(last.got[1]).hourly,
                         AffectedFields(last.got[1]).hourly)
        /\ SameSeriesBut(forecastDaily, FromWellFormed(last.got[1]).daily,
                         AffectedFields(last.got[1]).daily)

\* C12: whenever async_update fails after it received the primary
\* document, the exception that reaches the caller is ApiError
C12_OnlyApiErrorEscapes ==
    (last.op = "async_update" /\ last.got # None /\ IsRaise(last.out)) =>
        last.out = Raise("ApiError")

\* the endpoints of the calls of _async_get_data that issued a GET, in order
ExternalUrls(reqs) ==
    LET sent == SelectSeq(reqs, LAMBDA r : r.gets > 0)
    IN  [i \in 1..Len(sent) |-> sent[i].url]

\* the place of an endpoint in the order of one update
Rank(url) == CASE url = "location" -> 1 [] url = "forecast" -> 2 [] OTHER -> 3

\* C18: within one async_update the external requests are, in this order,
\* the location lookup (only when no id is known), one request for the
\* primary forecast document, and at most one request for the secondary
\* page; the primary document is requested exactly once, and the records
\* are replaced only after all requests of the update have completed
C18_RequestOrder ==
    [][last'.op = "async_update" =>
        LET urls == ExternalUrls(last'.reqs)
        IN  /\ \A i \in 1..Len(urls) : \A j \in 1..Len(urls) :
                  i < j => Rank(urls[i]) < Rank(urls[j])
            /\ "id" \in DOMAIN attributes => (urls # <<>> /\ urls[1] = "forecast")
            /\ (\E i \in DOMAIN last'.reqs : ~last'.reqs[i].ok) =>
                  (current' = current /\ forecastHourly' = forecastHourly
                   /\ forecastDaily' = forecastDaily)]_vars

\* the `ts` attribute of a node of the forecast document is 1
StormyNode(attrs) == Attr(attrs, "ts") = Some(IntTok(1))

\* C20: after a successful async_update the is_storm field of the current
\* record is true if and only if the `ts` attribute of fact/values is 1,
\* and likewise for every daily record and its <day> element (and for the
\* hourly records, whose <forecast>/values all have ts = 1 here); a record
\* built from ts = 1 is classified lightning or lightning-rainy
C20_StormFromTs ==
    (/\ last.op = "async_update" /\ last.out = <<"bool", TRUE>> /\ last.got # None) =>
        LET doc == Documents[last.got[1]].location[1]
            days == SelectSeq(doc.days, LAMBDA d : "descr" \in DOMAIN d.attrs)
        IN  /\ current["is_storm"] = Some(StormyNode(doc.fact[1].values[1].attrs))
            /\ StormyNode(doc.fact[1].values[1].attrs) =>
                  Condition(current, Hourly, Client, now)
                      \in {Ok(Some("lightning")), Ok(Some("lightning-rainy"))}
            /\ \A i \in 1..Len(forecastHourly) : forecastHourly[i]["is_storm"] = Some(TRUE)
            /\ Len(forecastDaily) = Len(days)
            /\ \A i \in 1..Len(forecastDaily) :
                  forecastDaily[i]["is_storm"] = Some(StormyNode(days[i].attrs))

\* C7: two calls of async_update_parsed less than 61 minutes apart cause
\* exactly one request for the secondary page, and a second call made
\* after the 61 minutes have passed causes a second request
C7_ThrottleOneFetchPerWindow ==
    Len(calls) = 2 =>
        /\ calls[2].at - calls[1].at < ParsedUpdateInterval =>
              calls[1].fetched + calls[2].fetched = 1
        /\ calls[2].at - calls[1].at > ParsedUpdateInterval =>
              calls[1].fetched + calls[2].fetched = 2

\* the step is a call of async_update_parsed
ParsedCalled == now' = now /\ last'.op = "async_update_parsed"

\* C27: when the fetch inside async_update_parsed fails, SecondaryByDay
\* keeps its previous value, and the call of async_update_parsed that
\* follows a failed one attempts the fetch again however little time has
\* passed since the failed attempt
C27_FailedFetchIsRetried ==
    [][ParsedCalled =>
          /\ IsRaise(last'.out) => parsed' = parsed
          /\ (last.op = "async_update_parsed" /\ IsRaise(last.out)) =>
                last'.reqs # <<>>]_vars

\* the local midnight of the calendar day of an instant, in a zone `tzone`
\* minutes east of UTC
MidnightOf(ts, tzone) == ((ts + tzone) \div DayLen) * DayLen - tzone

\* int(x) of a raw string, or null when the string is not an integer
IntOrNull(raw) == IF raw # None /\ raw[1][1] = "int" THEN Some(raw[1][2]) ELSE None

\* the supplemental fields of a record are those of the SecondaryByDay
\* entry of its day, or absent when there is no such entry
MergedByDay(rec, tzone) ==
    LET key == MidnightOf(rec["datetime"][1], tzone)
    IN  IF key \in DOMAIN parsed
        THEN /\ Supplemental \subseteq DOMAIN rec
             /\ rec["native_wind_gust_speed"] = IntOrNull(Get(parsed[key], "wind-gust"))
             /\ rec["pollen_birch"] = IntOrNull(Get(parsed[key], "pollen-birch"))
             /\ rec["pollen_grass"] = IntOrNull(Get(parsed[key], "pollen-grass"))
             /\ rec["pollen_ragweed"] = IntOrNull(Get(parsed[key], "pollen-ragweed"))
             /\ rec["uv_index"] = IntOrNull(Get(parsed[key], "radiation"))
             /\ rec["road_condition"] = Get(parsed[key], "roadcondition")
        ELSE DOMAIN rec \cap Supplemental = {}

\* the time zone of the forecast the servers answered
AnsweredZone == Documents[last.srv.forecast.body].location[1].attrs.tzone[2]

\* C22: after a successful async_update, an hourly or daily record carries
\* the supplemental fields if and only if SecondaryByDay has an entry keyed
\* by the local midnight of the record's day; each numeric field is the
\* integer parse of that day's raw string or null, road condition is the
\* raw string, and nothing of another day's entry is in the record; this
\* holds from the first update on
C22_SupplementalByDay ==
    (last.op = "async_update" /\ last.out = <<"bool", TRUE>>) =>
        /\ \A i \in 1..Len(forecastHourly) : MergedByDay(forecastHourly[i], AnsweredZone)
        /\ \A i \in 1..Len(forecastDaily) : MergedByDay(forecastDaily[i], AnsweredZone)
        /\ (last.before.throttle = None /\ last.srv.page.body = "page-a") =>
              /\ forecastHourly # <<>>
              /\ forecastHourly[1]["native_wind_gust_speed"] = Some(9)

\* the first update of a client, on a page with metrics of today only:
\* the records of today carry them, the records of tomorrow carry none
C22_Witness ==
    /\ last.op = "async_update" /\ last.out = <<"bool", TRUE>>
    /\ last.before.throttle = None
    /\ last.srv.page.body = "page-b" /\ last.srv.forecast.body = "doc-a"
    /\ Len(forecastDaily) = 2
    /\ forecastDaily[1]["pollen_birch"] = Some(2)
    /\ forecastDaily[1]["native_wind_gust_speed"] = None
    /\ "pollen_birch" \notin DOMAIN forecastDaily[2]
    /\ Len(forecastHourly) = 4
    /\ forecastHourly[2]["pollen_birch"] = Some(2)
    /\ "pollen_birch" \notin DOMAIN forecastHourly[3]

====
